---- MODULE Spec2Model ----
(***************************************************************************)
(* Threshold ElGamal over an elliptic curve (package elgamalcrypto).       *)
(*                                                                         *)
(* The curve is a short-Weierstrass curve y^2 = x^3 - 3x + B (mod P) of    *)
(* prime order N with base point G.  The source uses P-224; the model uses *)
(* a curve of the same shape with a 12-bit field, so that every point and  *)
(* every scalar can be enumerated:                                         *)
(*   - P = 1 (mod 8), as for P-224, so square roots need Tonelli-Shanks;   *)
(*   - the group has prime order N < P and cofactor 1, as for P-224;       *)
(*   - x^3 - 3x + B = 1/4 has exactly one root mod P, as for P-224 (whose  *)
(*     root is x = 4aaa87a3780ddfb0fa6a3b4c5aed2c1da3a417d8d69725877d1b94f6),*)
(*     so the curve has the two points with y = (P-1)/2 and y = (P+1)/2.   *)
(* A point is a record [x, y]; the point at infinity is (0, 0), which is   *)
(* what crypto/elliptic returns for it.                                    *)
(***************************************************************************)
EXTENDS Integers, Sequences, FiniteSets, TLC

(***************************************************************************)
(* Curve parameters (myCurve.Params()) and package constants               *)
(***************************************************************************)
P == 3313
N == 3307
B == 1954
Gx == 1
Gy == 1467
G == [x |-> Gx, y |-> Gy]

SHORT_POINT_LENGTH == 29
MAX_ROUTINES == 4
BytesNumber == 64

Big0 == 0
Big1 == 1
Big2 == 2
Big3 == 3

(***************************************************************************)
(* math/big: byte forms of integers                                        *)
(***************************************************************************)
Abs(a) == IF a < 0 THEN -a ELSE a

\* big.Int.Bytes(): the big-endian bytes of |a|, without leading zeros
\* (the empty slice for 0).
RECURSIVE Bytes(_)
Bytes(a) ==
    IF Abs(a) = 0 THEN << >>
    ELSE Append(Bytes(Abs(a) \div 256), Abs(a) % 256)

\* big.Int.SetBytes(): the unsigned big-endian integer of a byte slice.
RECURSIVE SetBytes(_)
SetBytes(buf) ==
    LET set == {i \in 1 .. Len(buf) : buf[i] # 0}
    IN  IF set = {} THEN 0
        ELSE LET first == CHOOSE i \in set : \A j \in set : i <= j
                 high  == SetBytes(SubSeq(buf, first, Len(buf) - 1))
             IN  IF high = 0 THEN buf[Len(buf)] ELSE high * 256 + buf[Len(buf)]

\* The length in bytes of a scalar of the group: (N.BitLen() + 7) / 8.
RECURSIVE BitLen(_)
BitLen(a) == IF a = 0 THEN 0 ELSE 1 + BitLen(a \div 2)

ScalarBytes == (BitLen(N) + 7) \div 8

\* A scalar as the fixed-width big-endian slice elliptic.GenerateKey returns.
RECURSIVE FixedBytes(_, _)
FixedBytes(a, len) ==
    IF len = 0 THEN << >>
    ELSE Append(FixedBytes(a \div 256, len - 1), a % 256)

\* big.Int.ModInverse, by the extended Euclidean algorithm.
RECURSIVE InvStep(_, _, _, _)
InvStep(r0, r1, t0, t1) ==
    IF r1 = 0 THEN t0
    ELSE InvStep(r1, r0 % r1, t1, t0 - (r0 \div r1) * t1)

ModInverse(a, m) == InvStep(m, a % m, 0, 1) % m

\* big.Int.Exp(a, e, m) for e >= 0.
ModExp(a, e, m) ==
    LET eb == Bytes(e)
        Bit(i) == (eb[Len(eb) - (i \div 8)] \div (2 ^ (i % 8))) % 2
        Power[acc \in Int, i \in Nat] ==
            IF i = 0 THEN acc
            ELSE Power[IF Bit(i - 1) = 1
                       THEN (((acc * acc) % m) * (a % m)) % m
                       ELSE (acc * acc) % m,
                       i - 1]
    IN  Power[1 % m, 8 * Len(eb)]

(***************************************************************************)
(* crypto/elliptic (CurveParams): the group law on affine points           *)
(***************************************************************************)
pointZero == [x |-> 0, y |-> 0]

Points == [x : Int, y : Int]

\* zForAffine: (0, 0) stands for the point at infinity.
IsInfinity(p) == p.x = 0 /\ p.y = 0

\* affineFromJacobian reduces both coordinates modulo P.
Affine(p) == IF IsInfinity(p) THEN pointZero ELSE [x |-> p.x % P, y |-> p.y % P]

IsOnCurve(p) ==
    /\ p.x >= 0 /\ p.x < P /\ p.y >= 0 /\ p.y < P
    /\ (p.y * p.y) % P = (((((p.x * p.x) % P) * p.x) % P) + 3 * P - 3 * p.x + B) % P

CurveDouble(p) ==
    IF IsInfinity(p) \/ p.y % P = 0 THEN pointZero
    ELSE LET x1 == p.x % P
             y1 == p.y % P
             l  == (((3 * ((x1 * x1) % P) + P - 3) % P) * ModInverse(2 * y1, P)) % P
             x3 == (l * l + 2 * P - 2 * x1) % P
         IN  [x |-> x3, y |-> (l * ((x1 + P - x3) % P) + P - y1) % P]

CurveAdd(p, q) ==
    IF IsInfinity(p) THEN Affine(q)
    ELSE IF IsInfinity(q) THEN Affine(p)
    ELSE LET x1 == p.x % P
             y1 == p.y % P
             x2 == q.x % P
             y2 == q.y % P
         IN  IF x1 = x2
             THEN IF y1 = y2 THEN CurveDouble(p) ELSE pointZero
             ELSE LET l  == (((y2 + P - y1) % P) * ModInverse(x2 + P - x1, P)) % P
                      x3 == (l * l + 2 * P - x1 - x2) % P
                  IN  [x |-> x3, y |-> (l * ((x1 + P - x3) % P) + P - y1) % P]

\* ScalarMult(Bx, By, k): double-and-add over the bits of the byte slice k,
\* most significant bit first.
ScalarMult(p, k) ==
    LET kb == Bytes(k)
        Bit(i) == (kb[Len(kb) - (i \div 8)] \div (2 ^ (i % 8))) % 2
        Ladder[acc \in Points, i \in Nat] ==
            IF i = 0 THEN acc
            ELSE Ladder[IF Bit(i - 1) = 1
                        THEN CurveAdd(CurveDouble(acc), p)
                        ELSE CurveDouble(acc),
                        i - 1]
    IN  Ladder[pointZero, 8 * Len(kb)]

\* The multiples of G, computed once: ScalarBaseMult(k) for 0 <= k < N.
BaseTab == [k \in 0 .. N - 1 |-> ScalarMult(G, k)] @@ << >>

ScalarBaseMult(k) == IF k < N THEN BaseTab[k] ELSE ScalarMult(G, k)

(***************************************************************************)
(* Operators on points of the curve                                        *)
(***************************************************************************)
baseMult(a) == ScalarBaseMult(SetBytes(Bytes(a)))

baseMultB(a) == ScalarBaseMult(SetBytes(a))

mult(p, a) == ScalarMult(p, SetBytes(Bytes(a)))

multB(p, a) == ScalarMult(p, SetBytes(a))

addC(p, q) == CurveAdd(p, q)

negC(p) == [x |-> p.x, y |-> -p.y]

subC(p, q) == addC(p, negC(q))

equalC(this, p) == this.x = p.x /\ this.y = p.y

doubleC(p) == CurveDouble(p)

(***************************************************************************)
(* math/big ModSqrt (Tonelli-Shanks, the branch taken for P = 1 mod 8)     *)
(***************************************************************************)
\* Jacobi(a, P) for the prime P, by Euler's criterion: 1, -1 or 0.
Jacobi(a) ==
    LET e == ModExp(a, (P - 1) \div 2, P)
    IN  IF e = 0 THEN 0 ELSE IF e = 1 THEN 1 ELSE -1

RECURSIVE OddPart(_)
OddPart(a) == IF a % 2 = 0 THEN OddPart(a \div 2) ELSE a

RECURSIVE TwoPart(_)
TwoPart(a) == IF a % 2 = 0 THEN 1 + TwoPart(a \div 2) ELSE 0

\* The least non-square n >= 2.
RECURSIVE NonSquare(_)
NonSquare(a) == IF Jacobi(a) = -1 THEN a ELSE NonSquare(a + 1)

\* The least m with b^(2^m) = 1.
RECURSIVE OrderLog(_)
OrderLog(b) == IF b = 1 THEN 0 ELSE 1 + OrderLog((b * b) % P)

TonelliShanks ==
    LET Loop[y \in Int, b \in Int, g \in Int, r \in Nat] ==
            LET m == OrderLog(b)
            IN  IF m = 0 THEN y
                ELSE LET t  == ModExp(g, 2 ^ (r - m - 1), P)
                         g2 == (t * t) % P
                     IN  Loop[(y * t) % P, (b * g2) % P, g2, m]
    IN  Loop

\* P - 1 = s * 2^e with s odd; g = n^s for the least non-square n.
TonelliOdd == OddPart(P - 1)

TonelliTwo == TwoPart(P - 1)

TonelliG == ModExp(NonSquare(2), TonelliOdd, P)

\* ModSqrt(a, P): a square root of a modulo P, or -1 (nil) when there is none.
ModSqrt(a) ==
    IF Jacobi(a) = -1 THEN -1
    ELSE IF Jacobi(a) = 0 THEN 0
    ELSE TonelliShanks[ModExp(a, (TonelliOdd + 1) \div 2, P), ModExp(a, TonelliOdd, P),
                       TonelliG, TonelliTwo]

(***************************************************************************)
(* Short representation of points: short(p) = [f(y), x]                    *)
(***************************************************************************)
\* A ShortPoint is an array of SHORT_POINT_LENGTH bytes, indexed from 0.
GetShortOf(p) ==
    LET middle == P \div Big2
        temp   == Bytes(p.x)
        lx     == Len(temp)
    IN  [k \in 0 .. SHORT_POINT_LENGTH - 1 |->
            IF k = 0 THEN (IF p.y >= middle THEN 1 ELSE 0)
            ELSE IF SHORT_POINT_LENGTH - k <= lx
                 THEN temp[lx - (SHORT_POINT_LENGTH - k) + 1]
                 ELSE 0]

\* YFromX with the result of ModSqrt not looked at: y stays what it was
\* before the call, and no error is returned.
YFromXUnchecked(x) ==
    LET x3     == ModExp(x, Big3, P)
        threeX == x * Big3
        y      == (x3 - threeX + B) % P
        root   == ModSqrt(y)
    IN  [y |-> IF root = -1 THEN y ELSE root, err |-> FALSE]

\* YFromX: [y, err]; err is TRUE when x is the abscissa of no point.
YFromX(x) ==
    LET x3     == ModExp(x, Big3, P)
        threeX == x * Big3
        y      == (x3 - threeX + B) % P
        root   == ModSqrt(y)
    IN  [y |-> root, err |-> root = -1]

\* sp[1:SHORT_POINT_LENGTH] as a byte slice.
ShortTail(sp) == [k \in 1 .. SHORT_POINT_LENGTH - 1 |-> sp[k]]

\* PointFromShort: the point, or the value Panic when checkErr panics.
Panic == [x |-> -1, y |-> -1]

PointFromShort(sp) ==
    LET px     == SetBytes(ShortTail(sp))
        r      == YFromX(px)
        middle == P \div Big2
    IN  IF r.err THEN Panic
        ELSE IF r.y < middle /\ sp[0] = 1 THEN [x |-> px, y |-> P - r.y]
        ELSE IF r.y >= middle /\ sp[0] = 0 THEN [x |-> px, y |-> P - r.y]
        ELSE [x |-> px, y |-> r.y]

\* PointFromBytes on a slice sp of at least SHORT_POINT_LENGTH bytes, indexed
\* from 0: the point, or the value Panic when checkErr panics.
PointFromBytes(sp) ==
    LET px     == SetBytes([k \in 1 .. SHORT_POINT_LENGTH - 1 |-> sp[k]])
        r      == YFromX(px)
        middle == P \div Big2
    IN  IF r.err THEN Panic
        ELSE IF r.y < middle /\ sp[0] = 1 THEN [x |-> px, y |-> P - r.y]
        ELSE IF r.y >= middle /\ sp[0] = 0 THEN [x |-> px, y |-> P - r.y]
        ELSE [x |-> px, y |-> r.y]

(***************************************************************************)
(* github.com/codahale/sss: Shamir's secret sharing, byte by byte, GF(256) *)
(***************************************************************************)
XorBit(a, b, i) == ((((a \div (2 ^ i)) + (b \div (2 ^ i))) % 2) * (2 ^ i))

\* The exclusive or of two values of at most nine bits.
Xor(a, b) ==
    XorBit(a, b, 0) + XorBit(a, b, 1) + XorBit(a, b, 2) + XorBit(a, b, 3)
    + XorBit(a, b, 4) + XorBit(a, b, 5) + XorBit(a, b, 6) + XorBit(a, b, 7)
    + XorBit(a, b, 8)

\* Multiplication by x modulo x^8 + x^4 + x^3 + x + 1.
XTime(a) == IF 2 * a >= 256 THEN Xor(2 * a, 283) ELSE 2 * a

RECURSIVE GFMul(_, _)
GFMul(a, b) ==
    IF a = 0 \/ b = 0 THEN 0
    ELSE LET rest == GFMul(XTime(a), b \div 2)
         IN  IF rest = 0 THEN (IF b % 2 = 1 THEN a ELSE 0)
             ELSE Xor(IF b % 2 = 1 THEN a ELSE 0, rest)

GFInverse == [a \in 1 .. 255 |-> CHOOSE b \in 1 .. 255 : GFMul(a, b) = 1] @@ << >>

GFDiv(a, b) == IF a = 0 THEN 0 ELSE GFMul(a, GFInverse[b])

\* Split(3, 2, secret): per byte a polynomial secret[k] + coefs[k] * X with
\* a non-zero random coefficient; share i is the polynomial's value at i.
sssSplit(secret, coefs) ==
    [i \in 1 .. 3 |->
        [k \in 1 .. Len(secret) |-> Xor(secret[k], GFMul(coefs[k], i))]]

\* Combine(shares): Lagrange interpolation at 0 of the shares given
\* (a function from a set of indices to shares).
RECURSIVE sssWeight(_, _, _)
sssWeight(i, others, acc) ==
    IF others = {} THEN acc
    ELSE LET j == CHOOSE j \in others : TRUE
         IN  sssWeight(i, others \ {j}, GFMul(acc, GFDiv(j, Xor(i, j))))

RECURSIVE sssInterpolate(_, _, _, _)
sssInterpolate(shares, k, todo, acc) ==
    IF todo = {} THEN acc
    ELSE LET i == CHOOSE i \in todo : TRUE
             w == sssWeight(i, DOMAIN shares \ {i}, 1)
         IN  sssInterpolate(shares, k, todo \ {i}, Xor(acc, GFMul(w, shares[i][k])))

sssCombine(shares) ==
    LET any == CHOOSE i \in DOMAIN shares : TRUE
    IN  [k \in 1 .. Len(shares[any]) |-> sssInterpolate(shares, k, DOMAIN shares, 0)]

(***************************************************************************)
(* crypto/sha512: a stand-in digest of BytesNumber bytes, indexed from 0   *)
(***************************************************************************)
RECURSIVE Absorb(_)
Absorb(buf) ==
    IF Len(buf) = 0 THEN 7
    ELSE (Absorb(SubSeq(buf, 1, Len(buf) - 1)) * 31 + buf[Len(buf)] + Len(buf)) % 65521

Sum512(buf) ==
    LET acc == Absorb(buf)
    IN  [i \in 0 .. BytesNumber - 1 |-> ((acc + 1) * (2 * i + 1) + i * i) % 256]

(***************************************************************************)
(* encoding/gob: GetBytes(val), the gob stream of one value.  A value is a *)
(* record [kind, v]: an int64 or a float64 holding the integer v, or a     *)
(* string holding the bytes v.                                             *)
(***************************************************************************)
\* An unsigned integer of gob: one byte below 128, else the negated byte
\* count followed by the bytes, most significant first.
gobUint(u) ==
    IF u < 128 THEN <<u>>
    ELSE IF u < 256 THEN <<255, u>>
    ELSE <<254, u \div 256, u % 256>>

\* The bits of the float64 v, byte-reversed, for the integers 0 .. 9.
gobFloatBits(v) ==
    CASE v = 0 -> 0
      [] v = 1 -> 61503
      [] v = 2 -> 64
      [] v = 3 -> 2112
      [] v = 4 -> 4160
      [] v = 5 -> 5184
      [] v = 6 -> 6208
      [] v = 7 -> 7232
      [] v = 8 -> 8256
      [] v = 9 -> 8768

GetBytes(val) ==
    LET body == CASE val.kind = "int64" ->
                        <<4, 0>> \o gobUint(IF val.v < 0 THEN 2 * (-val.v) - 1 ELSE 2 * val.v)
                  [] val.kind = "float64" ->
                        <<8, 0>> \o gobUint(gobFloatBits(val.v))
                  [] val.kind = "string" ->
                        <<12, 0>> \o gobUint(Len(val.v)) \o val.v
    IN  gobUint(Len(body)) \o body

(***************************************************************************)
(* Key generation                                                          *)
(***************************************************************************)
\* elliptic.GenerateKey with the scalar k drawn from the random source.
GenerateKey(k) ==
    LET priv == FixedBytes(k, ScalarBytes)
    IN  [priv |-> priv, Y |-> ScalarBaseMult(SetBytes(priv))]

\* CreateKeys with the coordinates of Y exchanged.
CreateKeysSwapped(k) ==
    LET key == GenerateKey(k)
    IN  [pub |-> [Y |-> [x |-> key.Y.y, y |-> key.Y.x]], priv0 |-> key.priv]

\* CreateKeys: [pub, priv0].
CreateKeys(k) ==
    LET key == GenerateKey(k)
    IN  [pub |-> [Y |-> key.Y], priv0 |-> key.priv]

\* SetKeys storing keyParts[1] twice.
SetKeysRepeated(k, coefs) ==
    LET created  == CreateKeys(k)
        priv0    == created.priv0
        keyParts == sssSplit(priv0, coefs)
    IN  [pub       |-> created.pub,
         priv      |-> [i \in 0 .. 3 |-> IF i = 0 THEN priv0
                                         ELSE IF i = 2 THEN keyParts[1]
                                         ELSE keyParts[i]],
         verifiers |-> [i \in 1 .. 3 |-> baseMultB(keyParts[i])]]

\* SetKeys: [pub, priv, verifiers]; priv is indexed 0 .. 3.
SetKeys(k, coefs) ==
    LET created  == CreateKeys(k)
        priv0    == created.priv0
        keyParts == sssSplit(priv0, coefs)
    IN  [pub       |-> created.pub,
         priv      |-> [i \in 0 .. 3 |-> IF i = 0 THEN priv0 ELSE keyParts[i]],
         verifiers |-> [i \in 1 .. 3 |-> baseMultB(keyParts[i])]]

(***************************************************************************)
(* Encryption and decryption of one message                                *)
(***************************************************************************)
\* The draw of rand.Int used as it comes.
DrawScalarRaw(draw) == draw

\* The scalar r used for a draw from rand.Int(random, N): 0 is replaced by 2.
DrawScalar(draw) == IF draw = Big0 THEN Big2 ELSE draw

XorHash(data, sHash) ==
    [i \in 1 .. Len(data) |-> Xor(data[i], sHash[(i - 1) % BytesNumber])]

basicEncryptHash(pub, msg, draw) ==
    LET r     == DrawScalar(draw)
        C     == baseMult(r)
        sk    == mult(pub.Y, r)
        sHash == Sum512(Bytes(sk.x) \o Bytes(sk.y))
    IN  [C |-> C, Data |-> XorHash(msg, sHash)]

basicEncryptPoint(pub, msg, draw) ==
    LET r  == DrawScalar(draw)
        C  == baseMult(r)
        sk == mult(pub.Y, r)
        d  == addC(baseMultB(msg), sk)
    IN  [C |-> C, Data |-> GetShortOf(d)]

\* Decrypt reusing the digest from its second byte on.
DecryptShifted(priv, cypher) ==
    LET DC     == multB(cypher.C, priv[0])
        DCHash == Sum512(Bytes(DC.x) \o Bytes(DC.y))
    IN  [i \in 1 .. Len(cypher.Data) |->
            Xor(cypher.Data[i], DCHash[IF i <= BytesNumber THEN i - 1 ELSE i % BytesNumber])]

Decrypt(priv, cypher) ==
    LET DC     == multB(cypher.C, priv[0])
        DCHash == Sum512(Bytes(DC.x) \o Bytes(DC.y))
    IN  XorHash(cypher.Data, DCHash)

decryptFromHash(d, sk) ==
    XorHash(d, Sum512(Bytes(sk.x) \o Bytes(sk.y)))

(***************************************************************************)
(* Keys of a table and the key holders' parts                              *)
(***************************************************************************)
\* The columns of ti that are encrypted (commands[j] != 0), by name.
EncryptedColumns(ti) ==
    {ti.colNames[j] : j \in {c \in 1 .. ti.nCol : ti.commands[c] # 0}}

\* SetTableKeys: prim is the primary-key column as the query returns it,
\* rdraws[i] the draw from rand.Int for row i, kdraws[c] the key material
\* drawn for column c.  Returns [pubs, keys, RforEnc].
SetTableKeys(ti, prim, rdraws, kdraws) ==
    LET RforEnc == [i \in 1 .. ti.nRows |-> DrawScalar(rdraws[i])]
        \* keys.R[val] = r: a later row with the same val overwrites
        lastRow(val) == CHOOSE i \in 1 .. ti.nRows :
                            /\ prim[i] = val
                            /\ \A k \in 1 .. ti.nRows : prim[k] = val => k <= i
        R    == [val \in {prim[i] : i \in 1 .. ti.nRows} |-> RforEnc[lastRow(val)]]
        made == [c \in EncryptedColumns(ti) |-> SetKeys(kdraws[c].k, kdraws[c].coefs)]
    IN  [pubs    |-> [c \in EncryptedColumns(ti) |-> made[c].pub],
         keys    |-> [ti |-> ti, R |-> R,
                      Priv |-> [c \in EncryptedColumns(ti) |-> made[c].priv]],
         RforEnc |-> RforEnc]

\* One iteration of encryptHash: the bytes d of the cell val of a row whose
\* scalar is r, in a column whose public key is pubY.
encryptHash(pubY, r, val) ==
    LET sk    == mult(pubY, r)
        sHash == Sum512(Bytes(sk.x) \o Bytes(sk.y))
    IN  XorHash(GetBytes(val), sHash)

\* One iteration of encryptPoint: the short point d.
\* baseMultB(m) is taken from the table of the multiples of g, at the
\* integer of m reduced modulo the order of g.
encryptPoint(pubY, r, val) ==
    LET sk == mult(pubY, r)
        m  == GetBytes(val)
        Horner[k \in 0 .. Len(m)] ==
            IF k = 0 THEN 0 ELSE (Horner[k - 1] * 256 + m[k]) % N
    IN  GetShortOf(addC(BaseTab[Horner[Len(m)]], sk))

\* A PartTableKey before ExtractPart fills it (the zero value of the type).
EmptyInfo == [name |-> "", nRows |-> 0, nCol |-> 0, colNames |-> << >>,
              colTypes |-> << >>, commands |-> << >>]

EmptyPart == [ti |-> EmptyInfo, keyHolder |-> 0, R |-> << >>, PrivPart |-> << >>]

\* ExtractPart taking the full key v[0] instead of the share v[num].
ExtractPartFull(arr, num) ==
    IF num # 1 /\ num # 2 /\ num # 3
    THEN [part |-> EmptyPart, err |-> TRUE]
    ELSE [part |-> [ti        |-> arr.ti,
                    keyHolder |-> num,
                    R         |-> [k \in DOMAIN arr.R |-> arr.R[k]],
                    PrivPart  |-> [k \in DOMAIN arr.Priv |-> SetBytes(arr.Priv[k][0])]],
          err  |-> FALSE]

\* ExtractPart rejecting only the numbers above 3.
ExtractPartUpTo(arr, num) ==
    IF num > 3
    THEN [part |-> EmptyPart, err |-> TRUE]
    ELSE [part |-> [ti        |-> arr.ti,
                    keyHolder |-> num,
                    R         |-> [k \in DOMAIN arr.R |-> arr.R[k]],
                    PrivPart  |-> [k \in DOMAIN arr.Priv |-> SetBytes(arr.Priv[k][num])]],
          err  |-> FALSE]

\* ExtractPart: [part, err].
ExtractPart(arr, num) ==
    IF num # 1 /\ num # 2 /\ num # 3
    THEN [part |-> EmptyPart, err |-> TRUE]
    ELSE [part |-> [ti        |-> arr.ti,
                    keyHolder |-> num,
                    R         |-> [k \in DOMAIN arr.R |-> arr.R[k]],
                    PrivPart  |-> [k \in DOMAIN arr.Priv |-> SetBytes(arr.Priv[k][num])]],
          err  |-> FALSE]

\* GiveKeyPoint adding the two scalars.
GiveKeyPointSum(part, c) == baseMult(part.R[c.i] + part.PrivPart[c.j])

\* GiveKeyPoint: (r_i * s_j).g for the cell c = [i, j].
GiveKeyPoint(part, c) == baseMult(part.R[c.i] * part.PrivPart[c.j])

\* The sum of f over the set S.
RECURSIVE SumOver(_, _)
SumOver(f, S) ==
    IF S = {} THEN 0
    ELSE LET k == CHOOSE k \in S : TRUE
         IN  f[k] + SumOver(f, S \ {k})

\* GiveKeyCalculation: coeffs maps coords to integers; the order in which
\* the map is ranged over does not change the sum.
GiveKeyCalculation(part, coeffs) ==
    LET term == [k \in DOMAIN coeffs |-> (part.R[k.i] * part.PrivPart[k.j]) * coeffs[k]]
        sum  == SumOver(term, DOMAIN coeffs)
    IN  baseMult(sum)

\* calculateDecryptionKey: keyParts maps key holder numbers to points.
\* With no two parts present s keeps its zero value, a CPoint of nil
\* coordinates (NilPoint).
NilPoint == [x |-> -2, y |-> -2]

calculateDecryptionKey(keyParts) ==
    LET lambda1 == 3
        lambda2 == -3
        lambda3 == 1
        ok1 == 1 \in DOMAIN keyParts
        ok2 == 2 \in DOMAIN keyParts
        ok3 == 3 \in DOMAIN keyParts
    IN  IF ok1 /\ ok2
        THEN addC(mult(keyParts[1], lambda1), mult(keyParts[2], lambda2))
        ELSE IF ok2 /\ ok3
        THEN addC(mult(keyParts[2], lambda2), mult(keyParts[3], lambda3))
        ELSE IF ok3 /\ ok1
        THEN addC(mult(keyParts[3], lambda3), mult(keyParts[1], lambda1))
        ELSE NilPoint

(***************************************************************************)
(* Encryption of a table.  Sequences are indexed from 1: column j of the   *)
(* program is column j + 1 here, and commands[0] is commands[1].           *)
(***************************************************************************)
\* tableInfoFromDB(db, name, comm...): tbl is what the queries on the table
\* return, [name, nRows, colNames, colTypes].
tableInfoFromDB(tbl, comm) ==
    LET nCol   == Len(tbl.colNames)
        made   == [j \in 1 .. nCol |-> 0]
        first  == [made EXCEPT ![1] = 0]
        \* for j := uint(0); j < ti.nCol; j++ { ti.commands[j] = 1 }
        Loop[j \in 0 .. nCol] ==
            IF j = 0 THEN first ELSE [Loop[j - 1] EXCEPT ![j] = 1]
        filled == Loop[nCol]
    IN  [name     |-> tbl.name,
         nRows    |-> tbl.nRows,
         nCol     |-> nCol,
         colNames |-> tbl.colNames,
         colTypes |-> tbl.colTypes,
         commands |-> IF nCol > 0 /\ Len(comm) # nCol THEN filled ELSE comm]

\* getColsString(ti): the name and the type of each column of the new table.
getColsString(ti) ==
    [j \in 1 .. ti.nCol |->
        [name |-> ti.colNames[j],
         type |-> IF ti.commands[j] = 0 THEN ti.colTypes[j] ELSE "BYTEA DEFAULT NULL"]]

\* EncryptTable: the routine launched for a column of command cmd.
workerOf(cmd, colType) ==
    CASE cmd = 0 ->
            (CASE colType \in {"BIGINT", "INT8", "BIGSERIAL", "SERIAL8"} -> "transferInt64"
               [] colType \in {"INTEGER", "INT", "INT4", "SERIAL", "SERIAL4", "SMALLINT",
                               "INT2"} -> "transferInt32"
               [] colType \in {"BYTEA", "VARBIT"} -> "transferBytea"
               [] colType \in {"BOOLEAN", "BOOL"} -> "transferBool"
               [] colType \in {"DOUBLE PRECISION", "FLOAT8"} -> "transferFloat64"
               [] colType \in {"REAL", "FLOAT4"} -> "transferFloat32"
               [] colType = "TEXT" -> "transferString"
               [] colType = "JSON" -> "transferJson"
               [] colType \in {"CHARACTER VARYING", "CHARACTER", "VARCHAR"} -> "transferString"
               [] colType \in {"NUMERIC", "DECIMAL"} -> "transferNumeric"
               [] OTHER -> "transferBytea")
      [] cmd = 1 -> "encryptHash"
      [] cmd = 2 -> "encryptPoint"
      [] OTHER -> "encryptHash"

\* What a routine sends on cI for the value val it received on cE:
\* [panic, out], out the text sent, kept as its form and its content.  A
\* type assertion val.(T) panics when val holds another type.
NoText == [form |-> "", v |-> << >>]

textFor(worker, val, pubY, r) ==
    LET sent(form, v) == [panic |-> FALSE, out |-> [form |-> form, v |-> v]]
        asserted(kind, text) == IF val.kind = kind THEN text
                                ELSE [panic |-> TRUE, out |-> NoText]
    IN  CASE worker = "encryptHash" -> sent("decode", encryptHash(pubY, r, val))
          [] worker = "encryptPoint" -> sent("decode", encryptPoint(pubY, r, val))
          [] worker = "transferBytea" -> sent("decode", GetBytes(val))
          [] worker = "transferInt64" -> asserted("int64", sent("FormatInt", <<val.v>>))
          [] worker = "transferInt32" -> asserted("int", sent("Itoa", <<val.v>>))
          [] worker = "transferBool" -> asserted("bool", sent("FormatBool", <<val.v>>))
          [] worker = "transferFloat32" -> asserted("float64", sent("FormatFloat32", <<val.v>>))
          [] worker = "transferFloat64" -> asserted("float64", sent("FormatFloat64", <<val.v>>))
          [] worker = "transferNumeric" -> asserted("float64", sent("FormatFloat64", <<val.v>>))
          [] worker = "transferJson" -> asserted("string", sent("plain", val.v))
          [] worker = "transferString" -> asserted("string", sent("quoted", val.v))

\* The routine of the column colN with the key EncryptTable hands it,
\* pubs[colN].Y: a column without a key has the zero PublicKey, of nil
\* coordinates.
routineText(worker, val, pubs, colN, r) ==
    LET keyed == worker \in {"encryptHash", "encryptPoint"}
    IN  IF keyed /\ colN \notin DOMAIN pubs
        THEN [panic |-> TRUE, out |-> NoText]
        ELSE textFor(worker, val, IF keyed THEN pubs[colN].Y ELSE pointZero, r)

\* The buffered channels of EncryptTable hold at most lTail values.
lTail == 2

\* A send that finds no room in its channel and goes through all the same.
hasRoomAlways(ch) == TRUE

\* A send on a channel made with make(chan T, lTail) goes through when the
\* buffer holds fewer than lTail values, and blocks otherwise.
hasRoom(ch) == Len(ch) < lTail

\* dbFinal.Exec("DROP TABLE <name>_encrypted;") followed by checkErr: the
\* statement has no IF EXISTS, so the server answers with an error when the
\* table is not there, and checkErr panics on it.
DropTable(existed) == [err |-> ~existed]

\* rowInsertion taking the newest value of the channel.
receiveNewest(ch) == [val |-> ch[Len(ch)], rest |-> SubSeq(ch, 1, Len(ch) - 1)]

\* A receive from a buffered channel: the oldest value, and what remains.
receive(ch) == [val |-> Head(ch), rest |-> Tail(ch)]

\* rowInsertion leaving its loop one row early.
rowsInsertedEarly(i, nRows) == i + 1 >= nRows

\* rowInsertion: the loop over the rows is over (i < nRows fails).
rowsInserted(i, nRows) == i >= nRows

\* A routine taking the scalar of the first row at every iteration.
rowScalarFirst(scalars, i) == scalars[1]

\* The scalar a routine takes for its iteration i (from 0): RforEnc[i].
rowScalar(scalars, i) == scalars[i + 1]

(***************************************************************************)
(* Discrete logarithms: widths, the kangaroo walk, the baby steps          *)
(* The widths are the program's divided by four, to fit the curve above:   *)
(* a uint64 is WordBits wide, the byte widths 4 and 8 become 1 and 2.      *)
(***************************************************************************)
WordBits == 16

Uint64(a) == a % (2 ^ WordBits)

NarrowBytes == 1

DefaultBytes == 2

NarrowTypes ==
    {"INTEGER", "INT", "INT4", "SERIAL", "SERIAL4", "SMALLINT", "INT2", "REAL", "FLOAT4"}

\* decryptFromPoint with bytesNumber starting at the narrow width.
bytesNumberOfNarrow(colType) ==
    IF colType \in NarrowTypes THEN NarrowBytes ELSE NarrowBytes

\* decryptFromPoint: the width handed to kangaroo for a column type.
bytesNumberOf(colType) == IF colType \in NarrowTypes THEN NarrowBytes ELSE DefaultBytes

nRoutines == 4

\* kangaroo: N, the length of each walk.
kangarooN(bytesNumber) == Uint64(2 ^ (bytesNumber * 4))

Smaj(bytesNumber) == bytesNumber * 8

firstPoint(bytesNumber) ==
    Uint64(kangarooN(bytesNumber) * kangarooN(bytesNumber)) \div nRoutines

\* The step with the exponent running up to Smaj itself.
sUpToSmaj(q, bytesNumber) == 2 ^ (q.x % (Smaj(bytesNumber) + 1))

\* runningTamed(num): Tame before the first step.
tameStart(num, bytesNumber) == baseMult(firstPoint(bytesNumber) * num)

\* The pseudo-random step s : C -> S.
s(q, bytesNumber) == 2 ^ (q.x % Smaj(bytesNumber))

isInT(w, T) ==
    LET hits == {i \in 0 .. nRoutines - 1 : equalC(w, T[i])}
    IN  IF hits = {} THEN [found |-> FALSE, num |-> 0]
        ELSE [found |-> TRUE, num |-> CHOOSE i \in hits : \A j \in hits : i <= j]

\* The iteration at which the stretch of len iterations starting at i ends,
\* in a loop of n iterations.
stretchEnd(i, len, n) == IF i + len < n THEN i + len ELSE n

\* The loop of runningTamed from Tame = start: Tame and dTame after its N
\* iterations. Loop is the loop from step i on, run to the end of the
\* stretch of iterations that i lies in; Stretch runs stretch after stretch.
tameWalk(start, bytesNumber) ==
    LET len == 16
        Loop[Tame \in Points, dTame \in Int, i \in Nat, end \in Nat] ==
            IF i >= end THEN [Tame |-> Tame, dTame |-> dTame]
            ELSE Loop[addC(Tame, baseMult(s(Tame, bytesNumber))),
                      dTame + s(Tame, bytesNumber), i + 1, end]
        Stretch[at \in [Tame : Points, dTame : Int], i \in Nat] ==
            IF i >= kangarooN(bytesNumber) THEN at
            ELSE Stretch[Loop[at.Tame, at.dTame, i,
                              stretchEnd(i, len, kangarooN(bytesNumber))],
                         stretchEnd(i, len, kangarooN(bytesNumber))]
    IN  Stretch[[Tame |-> start, dTame |-> 0], 0]

\* runningTamed with the start of the walk left out of dTPlus[num].
runningTamedFromZero(num, bytesNumber) ==
    LET basePointBig == firstPoint(bytesNumber) * num
        walk == tameWalk(baseMult(basePointBig), bytesNumber)
    IN  [T |-> walk.Tame, dTPlus |-> walk.dTame]

\* runningTamed(num): what it stores in T[num] and dTPlus[num].
runningTamed(num, bytesNumber) ==
    LET basePointBig == firstPoint(bytesNumber) * num
        walk == tameWalk(tameStart(num, bytesNumber), bytesNumber)
    IN  [T |-> walk.Tame, dTPlus |-> basePointBig + walk.dTame]

\* kangaroo taking one value more from cLim than the tame kangaroos send.
tamedAwaitedOneMore(received) == received > nRoutines

\* kangaroo launching the wild kangaroos after a first reception on cLim.
tamedAwaitedFirst(received) == received >= 1

\* kangaroo between its two launches: the loop of nRoutines receptions on
\* cLim has ended when received values have been taken.
tamedAwaited(received) == received = nRoutines

\* What a pass of runningWild leaves: whether it met a tame kangaroo, which
\* one, the distance walked, the value sent, and the tests made.
passOf(ran) ==
    [found |-> ran.found, num |-> ran.num, d |-> ran.d, pow |-> ran.pow,
     tests |-> ran.tests]

\* One pass of the outer loop of runningWild, started at pt + offset.g: the
\* value sent when a tame kangaroo is met, or no meeting within N steps.
\* Loop is the inner loop from its step i on, run to the end of the stretch
\* of iterations that i lies in, and Stretch runs stretch after stretch.
\* tests lists, in order, the point handed to isInT at each test of the pass
\* and the distance (bigOffset, then dWPlus) the goroutine holds at that
\* test.
WildPass(pt, offset, T, dTPlus, bytesNumber) ==
    LET len == 16
        Loop[Wild \in Points, si \in Int, dWPlus \in Int, i \in Nat,
             tests \in Seq([w : Points, d : Int]), end \in Nat] ==
            IF i >= end
            THEN [found |-> FALSE, num |-> 0, d |-> dWPlus, pow |-> 0, tests |-> tests,
                  Wild |-> Wild, si |-> si]
            ELSE LET next == addC(Wild, baseMult(si))
                     hit  == isInT(next, T)
                     done == Append(tests, [w |-> next, d |-> dWPlus])
                 IN  IF hit.found
                     THEN [found |-> TRUE, num |-> hit.num, d |-> dWPlus,
                           pow |-> dTPlus[hit.num] - dWPlus, tests |-> done,
                           Wild |-> next, si |-> si]
                     ELSE Loop[next, s(next, bytesNumber),
                               dWPlus + s(next, bytesNumber), i + 1, done, end]
        Stretch[ran \in [found : BOOLEAN, num : Int, d : Int, pow : Int,
                         tests : Seq([w : Points, d : Int]), Wild : Points, si : Int],
                i \in Nat] ==
            IF ran.found \/ i >= kangarooN(bytesNumber) THEN passOf(ran)
            ELSE Stretch[Loop[ran.Wild, ran.si, ran.d, i, ran.tests,
                              stretchEnd(i, len, kangarooN(bytesNumber))],
                         stretchEnd(i, len, kangarooN(bytesNumber))]
        Wild  == addC(pt, baseMult(offset))
        hit   == isInT(Wild, T)
        first == <<[w |-> Wild, d |-> offset]>>
    IN  IF hit.found
        THEN [found |-> TRUE, num |-> hit.num, d |-> offset,
              pow |-> dTPlus[hit.num] - offset, tests |-> first]
        ELSE Stretch[[found |-> FALSE, num |-> 0, d |-> s(Wild, bytesNumber) + offset,
                      pow |-> 0, tests |-> first, Wild |-> Wild,
                      si |-> s(Wild, bytesNumber)], 0]

\* decryptFromPoint up to its call of kangaroo: the point q and the width.
decryptFromPoint(p, sk, colType) ==
    [q |-> subC(p, sk), bytesNumber |-> bytesNumberOf(colType)]

\* DecryptOneData(row, ti, colNum, keyParts), data being the value scanned
\* from the row: [st, result, call].  With the zero CPoint for sKey,
\* s.x.Bytes() in decryptFromHash and Neg(p.y) in negC dereference nil; in
\* point mode the result is what kangaroo returns for call.
NoCall == [q |-> NilPoint, bytesNumber |-> 0]

DecryptOneData(data, ti, colNum, keyParts) ==
    LET sKey == calculateDecryptionKey(keyParts)
    IN  CASE ti.commands[colNum] = 1 ->
                IF sKey = NilPoint
                THEN [st |-> "nil dereference", result |-> << >>, call |-> NoCall]
                ELSE [st |-> "returned", result |-> decryptFromHash(data, sKey),
                      call |-> NoCall]
          [] ti.commands[colNum] = 2 ->
                IF PointFromBytes(data) = Panic
                THEN [st |-> "panic", result |-> << >>, call |-> NoCall]
                ELSE IF sKey = NilPoint
                THEN [st |-> "nil dereference", result |-> << >>, call |-> NoCall]
                ELSE [st |-> "kangaroo", result |-> << >>,
                      call |-> decryptFromPoint(PointFromBytes(data), sKey,
                                                ti.colTypes[colNum])]
          [] OTHER -> [st |-> "returned", result |-> << >>, call |-> NoCall]

\* babyStepGiantStep: m, the number of baby steps, and the giant step m.g.
bsgsM(bytesNumber) == Uint64(2 ^ (bytesNumber * 4))

mg(bytesNumber) == baseMult(bsgsM(bytesNumber))

\* findPow: rmg, the stride of one goroutine.
rmg(bytesNumber) == multB(mg(bytesNumber), <<MAX_ROUTINES>>)

\* loadhL2 with pt advanced before the entry of i is written.
loadhL2Late(m) ==
    LET Walk[i \in Nat] == IF i = 0 THEN pointZero ELSE addC(Walk[i - 1], G)
        at == [i \in 0 .. m - 1 |-> GetShortOf(Walk[i + 1])] @@ << >>
    IN  [sp \in {at[i] : i \in 0 .. m - 1} |->
            CHOOSE i \in 0 .. m - 1 :
                at[i] = sp /\ \A j \in i + 1 .. m - 1 : at[j] # sp]

\* loadhL2(m): the map from GetShortOf(i.g) to i for i < m, the points
\* being reached by repeated addition of g; a later i overwrites an earlier
\* one with the same short form. Walk[i] is pt when the entry of i is written.
loadhL2(m) ==
    LET Walk[i \in Nat] == IF i = 0 THEN pointZero ELSE addC(Walk[i - 1], G)
        at == [i \in 0 .. m - 1 |-> GetShortOf(Walk[i])] @@ << >>
    IN  [sp \in {at[i] : i \in 0 .. m - 1} |->
            CHOOSE i \in 0 .. m - 1 :
                at[i] = sp /\ \A j \in i + 1 .. m - 1 : at[j] # sp]

\* findPow(k) with every goroutine starting from pt0 itself.
findPowStartAtPt0(k, pt, bytesNumber) ==
    [st |-> "run", i |-> k, pt1 |-> pt, pow |-> 0, tests |-> << >>]

\* findPow(k) before its loop: i and pt1; no index tested yet.
findPowStart(k, pt, bytesNumber) ==
    [st |-> "run", i |-> k, pt1 |-> subC(pt, multB(mg(bytesNumber), <<k>>)), pow |-> 0,
     tests |-> << >>]

\* One iteration of the loop of findPow: whether pt1 is in the map and the
\* value then sent on cPow, and i and pt1 after the iteration.
findPow(i, pt1, map, bytesNumber) ==
    LET sp == GetShortOf(pt1)
    IN  [found |-> sp \in DOMAIN map,
         pow   |-> IF sp \in DOMAIN map THEN Uint64(i * bsgsM(bytesNumber) + map[sp]) ELSE 0,
         i     |-> Uint64(i + MAX_ROUTINES),
         pt1   |-> subC(pt1, rmg(bytesNumber))]

(***************************************************************************)
(* Bounds of the model and the values drawn from the random source         *)
(***************************************************************************)
MaxKeyDraws == 3
MaxCoefDraws == 2
MaxScalarDraws == 3
MaxRows == 2
MaxExtra == 2
MaxLogs == 5
MaxPasses == 3
MaxPointMsgs == 3
MaxPairDraws == 2
MaxCoefficient == 1
MaxPipeRows == 5
MaxLongRows == 7
MaxWireX == 24

\* n values spread over lo .. hi, both ends included (n >= 2).
Spread(lo, hi, n) == [i \in 1 .. n |-> lo + ((hi - lo) * (i - 1)) \div (n - 1)]

Range(f) == {f[i] : i \in DOMAIN f}

\* Private scalars drawn by elliptic.GenerateKey, in [1, N).
KeyDraws == Range(Spread(1, N - 1, MaxKeyDraws))

\* Coefficients drawn by sss.Split, one non-zero byte per byte of the secret.
CoefDraws ==
    {[k \in 1 .. ScalarBytes |-> IF k % 2 = 1 THEN c ELSE 256 - c] :
        c \in Range(Spread(1, 255, MaxCoefDraws))}

KeyMaterial == [k : KeyDraws, coefs : CoefDraws]

\* The scalars whose point has its ordinate next to P/2.
BoundaryLogs == {k \in 1 .. N - 1 : BaseTab[k].y \in {P \div 2, P \div 2 + 1}}

\* Draws of rand.Int(random, N), in [0, N).
ScalarSeq == Spread(0, N - 1, MaxScalarDraws)

ScalarDraws == Range(ScalarSeq) \cup BoundaryLogs

\* Messages of the hash mode: empty, short, one digest long, and longer.
MakeMsg(len, seed) == [i \in 1 .. len |-> (seed * 17 + i * 31) % 256]

TestMessages ==
    {MakeMsg(len, seed) : len \in {0, 1, 5, BytesNumber, BytesNumber + MaxExtra},
                          seed \in {3, 250}}

\* The command vectors of the key-holder scenario: the three commands of
\* the comment of EncryptTable, and a byte that is none of them.
TestCommands == {<<0, 1, 2>>, <<0, 3, 2>>}

\* The table of the key-holder scenario: a primary key and two encrypted
\* columns.
TestTable(commands) ==
    [name |-> "t", nRows |-> MaxRows, nCol |-> 3,
     colNames |-> <<"id", "a", "b">>,
     colTypes |-> <<"INTEGER", "TEXT", "REAL">>,
     commands |-> commands]

\* The integers TestKangaroo and TestBSGS take the logarithm of: below the
\* square of the walk length, as the tests' own values are.
KangarooLogs == Range(Spread(0, 2 ^ (8 * NarrowBytes) - 1, MaxLogs))

\* The logarithms below the walk length N = 2^(4.B), all of them.
WalkLogs == 0 .. 2 ^ (4 * NarrowBytes) - 1

\* Integers from the square of the walk length up, the last one -1 modulo N:
\* logarithms outside the interval babyStepGiantStep searches.
BeyondLogs == {2 ^ (8 * NarrowBytes), N - 1}

\* Column types of the point mode: one of the narrow ones and one of the
\* others.
PointColumnTypes == {"INTEGER", "SMALLINT", "REAL", "BIGINT", "TEXT"}

\* First bytes of a short point received from outside: the two GetShortOf
\* writes, and bytes with other bits set.
WireFlags == {0, 1, 2, 3, 128, 129, 255}

\* Abscissas received from outside: of points of the curve and of none,
\* below P and from P up.
WireAbscissas == Range(Spread(0, 2 * P - 1, MaxWireX)) \cup {Gx, P + Gx}

shortOf(flag, x) ==
    LET xb == FixedBytes(x, SHORT_POINT_LENGTH - 1)
    IN  [k \in 0 .. SHORT_POINT_LENGTH - 1 |-> IF k = 0 THEN flag ELSE xb[k]]

WireShorts == {shortOf(flag, x) : flag \in WireFlags, x \in WireAbscissas}

\* Arguments of the operators on points: points of the curve, the point at
\* infinity, and pairs that fail the curve equation.
OpPoints ==
    {G, baseMult(2), baseMult(N - 1), pointZero,
     [x |-> 1, y |-> 1], [x |-> Gx, y |-> Gy + 1], [x |-> 2, y |-> 0], [x |-> P + 5, y |-> 7]}

OpScalars == {0, 1, 5}

\* What crypto/elliptic does with the pair p: it returns a result, or, for
\* a pair off the curve, panics in the releases that check their inputs.
LibraryOutcomes(p) ==
    IF IsOnCurve(p) \/ IsInfinity(p) THEN {"returns"} ELSE {"returns", "panics"}

\* Plaintexts of the point mode, one column value each.
PointMessages ==
    {<<v>> : v \in Range(Spread(0, 2 ^ (4 * NarrowBytes) - 1, MaxPointMsgs))}

\* The second party of muteTestDoubleAddition.
PairKeys == Range(Spread(1, N - 1, MaxPairDraws))

PairMessages ==
    {<<v>> : v \in Range(Spread(1, 2 ^ (4 * NarrowBytes) - 1, MaxPairDraws))}

PairDraws == Range(Spread(1, N - 1, MaxPairDraws))

\* Coefficient maps handed to GiveKeyCalculation: over the rows of one
\* encrypted column, each coefficient negative, zero or positive.
CoeffMaps(rows, cols) ==
    UNION {[[i : rows, j : {c}] -> {-MaxCoefficient, 0, MaxCoefficient}] : c \in cols}

PrimColumn(ti) == [i \in 1 .. ti.nRows |-> 10 + i]

\* The value the driver hands over for row i (from 1) of column j (from 1):
\* the row's key, a short text, a small real.
SourceCell(ti, i, j) ==
    CASE ti.colNames[j] = "id" -> [kind |-> "int64", v |-> PrimColumn(ti)[i]]
      [] ti.colNames[j] = "a"  -> [kind |-> "string", v |-> <<96 + i, 98>>]
      [] OTHER                 -> [kind |-> "float64", v |-> i]

\* The tables handed to EncryptTable: up to three columns, the first one
\* the primary key, and from no row up; the table of one column also with
\* more rows than its channels and routines can hold.
PipeNames == <<"id", "a", "b">>

PipeTypes == <<"BIGINT", "TEXT", "REAL">>

SourceTables ==
    {[name |-> "t", nRows |-> n, colNames |-> SubSeq(PipeNames, 1, c),
      colTypes |-> SubSeq(PipeTypes, 1, c)] : n \in 0 .. MaxPipeRows, c \in 1 .. 3}
    \cup {[name |-> "t", nRows |-> n, colNames |-> SubSeq(PipeNames, 1, 1),
            colTypes |-> SubSeq(PipeTypes, 1, 1)] : n \in MaxPipeRows .. MaxLongRows}

\* The command vectors handed to EncryptTable: of the length of the table,
\* shorter and longer, with the first command zero or not.
CommandVectors ==
    {<< >>, <<0>>, <<1>>, <<0, 1>>, <<2, 0>>, <<0, 1, 2>>, <<0, 2, 1, 0>>}

\* The draws of rand.Int for the rows, the first of them zero, and the key
\* material of a column.
PipeDraws(nRows) == [i \in 1 .. nRows |-> ((i - 1) * 1101) % N]

PipeKeys(cols) ==
    [c \in cols |-> [k |-> IF c = "a" THEN 1653 ELSE 1654,
                     coefs |-> [k \in 1 .. ScalarBytes |-> 7 * k]]]

(***************************************************************************)
(* State                                                                   *)
(***************************************************************************)
VARIABLES
    pc,        \* the operation last completed in the scenario being run
    created,   \* result of CreateKeys: [pub, priv0]
    bundle,    \* result of SetKeys: [pub, priv, verifiers]
    msg,       \* plaintext handed to basicEncryptHash
    cypher,    \* Cypher returned by basicEncryptHash
    result,    \* bytes returned by Decrypt
    pt,        \* TestShort: the point a.g
    short,     \* TestShort: GetShortOf(pt)
    pt2,       \* TestShort: PointFromShort(short)
    drawn,     \* the values rand.Int returned to the last operation that drew
    wire,      \* the SHORT_POINT_LENGTH bytes handed to PointFromShort and PointFromBytes
    fromShort, \* PointFromShort(wire)
    fromBytes, \* PointFromBytes(wire)
    opIn,      \* the points p, q and the scalar a handed to the operators on points
    opOut,     \* which operators returned, and what
    dfp,       \* the arguments p, s and colType of the last decryptFromPoint
    pubs,      \* SetTableKeys: public key of each encrypted column
    keys,      \* SetTableKeys: the TableKeys
    RforEnc,   \* SetTableKeys: the row scalars by row number
    parts,     \* key holder number -> PartTableKey extracted for it
    lastErr,   \* err of the last ExtractPart
    cell,      \* the coord a decryption key is requested for
    keyParts,  \* key holder number -> point given by GiveKeyPoint
    sKey,      \* result of calculateDecryptionKey
    caller,    \* the test that called the discrete-logarithm solver
    expected,  \* the integer that test compares the answer with
    kpc,       \* kangaroo: where its calling goroutine stands
    kpt,       \* kangaroo: pt
    kBytes,    \* kangaroo: bytesNumber
    walks,     \* kangaroo: what each runningTamed stores and what each pass of
               \* each runningWild meets, tabulated at the call
    T,         \* kangaroo: arrival point of each tame kangaroo
    dTPlus,    \* kangaroo: start plus distance of each tame kangaroo
    cLim,      \* kangaroo: number of values buffered in cLim
    tamed,     \* kangaroo: state of each runningTamed goroutine
    wild,      \* kangaroo: state and locals of each runningWild goroutine
    pursueWild,
    pow,       \* the value the solver returned
    plain,     \* bytes returned by decryptFromPoint
    bpc,       \* babyStepGiantStep: where its calling goroutine stands
    pt0,       \* babyStepGiantStep: pt0
    bBytes,    \* babyStepGiantStep: bytesNumber
    hL2,       \* babyStepGiantStep: the map of the baby steps
    finders,   \* babyStepGiantStep: state and locals of each findPow goroutine
    pursue,
    calcHolder, \* GiveKeyCalculation: the key holder asked, 0 before any call
    calcCoeffs, \* GiveKeyCalculation: coeffs
    calcPt,     \* GiveKeyCalculation: the point returned
    calcSplit,  \* a calculation asked whole and in two parts a and b
    lastNum,    \* num of the last ExtractPart, -1 before any call
    lastPart,   \* part returned by the last ExtractPart
    decOut,     \* DecryptOneData: its column and data, how it ended, result, call
    epc,       \* EncryptTable: where its calling goroutine stands
    job,       \* EncryptTable: the table, the commands, ti, the new columns,
               \* and the text each routine makes of each value
    disp,      \* EncryptTable: i and j of the loop sending on cEnc
    cEnc,      \* EncryptTable: the values buffered in each cEnc[j]
    cIns,      \* EncryptTable: the texts buffered in each cIns[j]
    workers,   \* the routine of each column: its name, i, state, text to send
    ins,       \* rowInsertion: i, j, buffer, state
    dest       \* the rows inserted in the new table, in order

keyVars == <<created, bundle, msg, cypher, result>>
pointVars == <<pt, short, pt2>>
drawVars == <<drawn>>
wireVars == <<wire, fromShort, fromBytes>>
opVars == <<opIn, opOut>>
probeVars == <<pointVars, drawVars, wireVars, opVars>>
shortVars == <<probeVars, dfp>>
tableVars == <<pubs, keys, RforEnc, parts, lastErr, cell, keyParts, sKey>>
kangarooVars == <<kpc, kpt, kBytes, walks, T, dTPlus, cLim, tamed, wild, pursueWild>>
bsgsVars == <<bpc, pt0, bBytes, hL2, finders, pursue>>
dlVars == <<caller, expected, pow, plain, kangarooVars, bsgsVars>>
calcVars == <<calcHolder, calcCoeffs, calcPt, calcSplit>>
extractVars == <<lastNum, lastPart>>
pipeVars == <<epc, job, disp, cEnc, cIns, workers, ins, dest>>
otherVars == <<calcVars, extractVars, decOut, pipeVars>>
vars == <<pc, keyVars, shortVars, tableVars, dlVars, otherVars>>

NoKey == [Y |-> pointZero]

EmptyTable == [name |-> "", nRows |-> 0, colNames |-> << >>, colTypes |-> << >>]

\* A runningWild goroutine: its state, offset, the hit it sends, and the
\* tests of its last pass.
IdleWild == [st |-> "off", offset |-> 0, num |-> 0, d |-> 0, pow |-> 0, tests |-> << >>]

\* A findPow goroutine: its state, i, pt1, the value it sends, and the
\* i and pt1 of each lookup in hL2 it has made.
IdleFinder == [st |-> "off", i |-> 0, pt1 |-> pointZero, pow |-> 0, tests |-> << >>]
NoPriv == [i \in 0 .. 3 |-> << >>]

Init ==
    /\ pc = "idle"
    /\ created = [pub |-> NoKey, priv0 |-> << >>]
    /\ bundle = [pub |-> NoKey, priv |-> NoPriv, verifiers |-> << >>]
    /\ msg = << >>
    /\ cypher = [C |-> pointZero, Data |-> << >>]
    /\ result = << >>
    /\ pt = pointZero
    /\ short = GetShortOf(pointZero)
    /\ pt2 = pointZero
    /\ drawn = << >>
    /\ wire = GetShortOf(pointZero)
    /\ fromShort = pointZero
    /\ fromBytes = pointZero
    /\ dfp = [p |-> pointZero, s |-> pointZero, colType |-> ""]
    /\ opIn = [p |-> pointZero, q |-> pointZero, a |-> 0]
    /\ opOut = [returned |-> {}, negC |-> pointZero, equalC |-> TRUE, addC |-> pointZero,
                subC |-> pointZero, doubleC |-> pointZero, mult |-> pointZero,
                multB |-> pointZero]
    /\ pubs = << >>
    /\ keys = [ti |-> EmptyInfo, R |-> << >>, Priv |-> << >>]
    /\ RforEnc = << >>
    /\ parts = << >>
    /\ lastErr = FALSE
    /\ cell = [i |-> 0, j |-> ""]
    /\ keyParts = << >>
    /\ sKey = NilPoint
    /\ caller = ""
    /\ expected = 0
    /\ kpc = "idle"
    /\ kpt = pointZero
    /\ kBytes = 0
    /\ walks = [tame |-> << >>, pass |-> << >>]
    /\ T = [k \in 0 .. nRoutines - 1 |-> NilPoint]
    /\ dTPlus = [k \in 0 .. nRoutines - 1 |-> -1]
    /\ cLim = 0
    /\ tamed = [k \in 0 .. nRoutines - 1 |-> "off"]
    /\ wild = [k \in 0 .. nRoutines - 1 |-> IdleWild]
    /\ pursueWild = TRUE
    /\ pow = 0
    /\ plain = << >>
    /\ bpc = "idle"
    /\ pt0 = pointZero
    /\ bBytes = 0
    /\ hL2 = << >>
    /\ finders = [k \in 0 .. MAX_ROUTINES - 1 |-> IdleFinder]
    /\ pursue = TRUE
    /\ calcHolder = 0
    /\ calcCoeffs = << >>
    /\ calcPt = NilPoint
    /\ calcSplit = [a |-> << >>, b |-> << >>, ptUnion |-> NilPoint, ptA |-> NilPoint,
                    ptB |-> NilPoint, ptCells |-> << >>]
    /\ lastNum = -1
    /\ lastPart = EmptyPart
    /\ decOut = [st |-> "", result |-> << >>, call |-> NoCall, colNum |-> 0, routine |-> "",
                 data |-> << >>]
    /\ epc = "idle"
    /\ job = [tbl |-> EmptyTable, commands |-> << >>, ti |-> EmptyInfo, columns |-> << >>,
              texts |-> << >>, existed |-> FALSE, created |-> FALSE]
    /\ disp = [i |-> 0, j |-> 1]
    /\ cEnc = << >>
    /\ cIns = << >>
    /\ workers = << >>
    /\ ins = [i |-> 0, j |-> 0, buffer |-> << >>, st |-> "off"]
    /\ dest = << >>

(***************************************************************************)
(* Operations                                                              *)
(***************************************************************************)
\* TestCreateKeys: CreateKeys(rand.Reader).
DoCreateKeys ==
    /\ pc = "idle"
    /\ \E k \in KeyDraws : created' = CreateKeys(k)
    /\ pc' = "created"
    /\ UNCHANGED <<otherVars, bundle, msg, cypher, result, shortVars, tableVars, dlVars>>

\* SetKeys(rand.Reader).
DoSetKeys ==
    /\ pc = "idle"
    /\ \E km \in KeyMaterial : bundle' = SetKeys(km.k, km.coefs)
    /\ pc' = "keyed"
    /\ UNCHANGED <<otherVars, created, msg, cypher, result, shortVars, tableVars, dlVars>>

\* pub.basicEncryptHash(message, rand.Reader).
DoEncryptHash ==
    /\ pc = "keyed"
    /\ \E m \in TestMessages, draw \in ScalarDraws :
          /\ msg' = m
          /\ cypher' = basicEncryptHash(bundle.pub, m, draw)
          /\ drawn' = <<draw>>
    /\ pc' = "encrypted"
    /\ UNCHANGED <<otherVars, created, bundle, result, pointVars, wireVars, opVars, dfp,
                   tableVars, dlVars>>

\* pub.basicEncryptPoint(msg, rand.Reader).
DoEncryptPoint ==
    /\ pc = "keyed"
    /\ \E m \in PointMessages, draw \in ScalarDraws :
          /\ msg' = m
          /\ cypher' = basicEncryptPoint(bundle.pub, m, draw)
          /\ drawn' = <<draw>>
    /\ pc' = "encryptedPoint"
    /\ UNCHANGED <<otherVars, created, bundle, result, pointVars, wireVars, opVars, dfp,
                   tableVars, dlVars>>

\* priv.Decrypt(cypher).
DoDecrypt ==
    /\ pc = "encrypted"
    /\ result' = Decrypt(bundle.priv, cypher)
    /\ pc' = "decrypted"
    /\ UNCHANGED <<otherVars, created, bundle, msg, cypher, shortVars, tableVars, dlVars>>

\* TestShort: a is drawn from [0, N).
DoShort ==
    /\ pc = "idle"
    /\ \E a \in 0 .. N - 1 :
          LET sp == GetShortOf(baseMult(a))
          IN  /\ pt' = baseMult(a)
              /\ short' = sp
              /\ pt2' = PointFromShort(sp)
    /\ pc' = "short"
    /\ UNCHANGED <<otherVars, keyVars, drawVars, wireVars, opVars, dfp, tableVars, dlVars>>

\* PointFromShort(sp) and PointFromBytes(sp[:]) on SHORT_POINT_LENGTH bytes
\* received from outside: any first byte, any abscissa.
DoPointFromShort ==
    /\ pc = "idle"
    /\ \E sp \in WireShorts :
          /\ wire' = sp
          /\ fromShort' = PointFromShort(sp)
          /\ fromBytes' = PointFromBytes(sp)
    /\ pc' = "wire"
    /\ UNCHANGED <<otherVars, keyVars, pointVars, drawVars, opVars, dfp, tableVars, dlVars>>

\* The operators on points applied to p, q and a, p being any pair of
\* integers. negC and equalC are code of the package; the others hand their
\* arguments to crypto/elliptic, which for a pair off the curve computes
\* with the formulas of the group law or panics, with the Go release.
DoCurveOps ==
    /\ pc = "idle"
    /\ \E p \in OpPoints, a \in OpScalars :
       \E q \in {G, p}, lib \in LibraryOutcomes(p) :
          /\ opIn' = [p |-> p, q |-> q, a |-> a]
          /\ opOut' =
                IF lib = "returns"
                THEN [returned |-> {"negC", "equalC", "addC", "subC", "doubleC", "mult", "multB"},
                      negC |-> negC(p), equalC |-> equalC(p, q), addC |-> addC(p, q),
                      subC |-> subC(p, q), doubleC |-> doubleC(p), mult |-> mult(p, a),
                      multB |-> multB(p, Bytes(a))]
                ELSE [returned |-> {"negC", "equalC"},
                      negC |-> negC(p), equalC |-> equalC(p, q), addC |-> Panic,
                      subC |-> Panic, doubleC |-> Panic, mult |-> Panic, multB |-> Panic]
    /\ pc' = "ops"
    /\ UNCHANGED <<otherVars, keyVars, pointVars, drawVars, wireVars, dfp, tableVars, dlVars>>

\* SetTableKeys(db, ti, random) on the table of the scenario.
DoSetTableKeys ==
    /\ pc = "idle"
    /\ \E rs \in 1 .. MaxScalarDraws, seed \in KeyMaterial, commands \in TestCommands :
          LET ti     == TestTable(commands)
              rdraws == [i \in 1 .. ti.nRows |-> ScalarSeq[((rs + i - 2) % MaxScalarDraws) + 1]]
              kdraws == [c \in EncryptedColumns(ti) |->
                            IF c = "a" THEN seed
                            ELSE [k |-> N - seed.k, coefs |-> seed.coefs]]
          IN  \E made \in {SetTableKeys(ti, PrimColumn(ti), rdraws, kdraws)} :
                 /\ pubs' = made.pubs
                 /\ keys' = made.keys
                 /\ RforEnc' = made.RforEnc
                 /\ drawn' = rdraws
    /\ pc' = "table"
    /\ UNCHANGED <<otherVars, keyVars, pointVars, wireVars, opVars, dfp, parts, lastErr, cell,
                   keyParts, sKey, dlVars>>

\* keys.ExtractPart(num), the part being handed to key holder num.
DoExtractPart ==
    /\ pc = "table"
    /\ \E num \in 0 .. 4 :
          LET got == ExtractPart(keys, num)
          IN  /\ num \notin DOMAIN parts
              /\ lastErr' = got.err
              /\ lastNum' = num
              /\ lastPart' = got.part
              /\ parts' = IF got.err THEN parts
                          ELSE [h \in DOMAIN parts \cup {num} |->
                                   IF h = num THEN got.part ELSE parts[h]]
    /\ UNCHANGED <<calcVars, decOut, pipeVars, pc, keyVars, shortVars, pubs, keys, RforEnc, cell, keyParts, sKey, dlVars>>

\* A key holder answers the request for the key of one cell.
DoGiveKeyPoint ==
    /\ pc \in {"table", "request"}
    /\ \E h \in DOMAIN parts, c \in [i : DOMAIN keys.R, j : DOMAIN keys.Priv] :
          /\ h \notin DOMAIN keyParts
          /\ pc = "request" => c = cell
          /\ cell' = c
          /\ keyParts' = [n \in DOMAIN keyParts \cup {h} |->
                             IF n = h THEN GiveKeyPoint(parts[h], c) ELSE keyParts[n]]
    /\ pc' = "request"
    /\ UNCHANGED <<otherVars, keyVars, shortVars, pubs, keys, RforEnc, parts, lastErr, sKey, dlVars>>

\* The data buyer combines the points received.
DoCalculateDecryptionKey ==
    /\ pc = "request"
    /\ sKey' = calculateDecryptionKey(keyParts)
    /\ pc' = "masked"
    /\ UNCHANGED <<otherVars, keyVars, shortVars, pubs, keys, RforEnc, parts, lastErr, cell, keyParts, dlVars>>

\* The data buyer decrypts the cell of row i and column colNum with the
\* points received so far, data being the cell of the encrypted table: what
\* the routine EncryptTable launched for the column made of the source cell.
DoDecryptOneData ==
    /\ pc \in {"table", "request"}
    /\ \E i \in 1 .. keys.ti.nRows, colNum \in 1 .. keys.ti.nCol :
          LET ti   == keys.ti
              colN == ti.colNames[colNum]
              val  == SourceCell(ti, i, colNum)
              routine == workerOf(ti.commands[colNum], ti.colTypes[colNum])
              data == CASE routine = "encryptHash" ->
                              encryptHash(pubs[colN].Y, RforEnc[i], val)
                        [] routine = "encryptPoint" ->
                              encryptPoint(pubs[colN].Y, RforEnc[i], val)
                        [] OTHER -> GetBytes(val)
          IN  /\ pc = "request" => (cell.i = PrimColumn(ti)[i] /\ cell.j = colN)
              /\ cell' = [i |-> PrimColumn(ti)[i], j |-> colN]
              /\ \E d \in {data} :
                 \E out \in {DecryptOneData(d, ti, colNum, keyParts)} :
                    decOut' = [st |-> out.st, result |-> out.result, call |-> out.call,
                               colNum |-> colNum, routine |-> routine, data |-> d]
    /\ pc' = "decryptedOne"
    /\ UNCHANGED <<calcVars, extractVars, pipeVars, keyVars, shortVars, pubs, keys, RforEnc, parts,
                   lastErr, keyParts, sKey, dlVars>>

\* A key holder answers the request for the key of a calculation.
DoGiveKeyCalculation ==
    /\ pc = "table"
    /\ \E h \in DOMAIN parts, coeffs \in CoeffMaps(DOMAIN keys.R, DOMAIN keys.Priv) :
          /\ calcHolder' = h
          /\ calcCoeffs' = coeffs
          /\ calcPt' = GiveKeyCalculation(parts[h], coeffs)
    /\ pc' = "calculated"
    /\ UNCHANGED <<calcSplit, extractVars, decOut, pipeVars, keyVars, shortVars, tableVars,
                   dlVars>>

\* The key holder who has just received its part, the first handed out,
\* answers three requests: for a calculation, and for the cells of that
\* calculation shared out over two maps a and b; and it answers for each
\* cell of a by GiveKeyPoint.
DoGiveKeySplit ==
    /\ pc = "table"
    /\ DOMAIN parts = {lastNum}
    /\ \E coeffs \in CoeffMaps(DOMAIN keys.R, DOMAIN keys.Priv) :
       \E cells \in SUBSET DOMAIN coeffs :
       \E a \in {[k \in cells |-> coeffs[k]]},
          b \in {[k \in DOMAIN coeffs \ cells |-> coeffs[k]]} :
          calcSplit' = [a |-> a, b |-> b,
                        ptUnion |-> GiveKeyCalculation(parts[lastNum], coeffs),
                        ptA |-> GiveKeyCalculation(parts[lastNum], a),
                        ptB |-> GiveKeyCalculation(parts[lastNum], b),
                        ptCells |-> [k \in cells |-> GiveKeyPoint(parts[lastNum], k)]]
    /\ pc' = "split"
    /\ UNCHANGED <<calcHolder, calcCoeffs, calcPt, extractVars, decOut, pipeVars, keyVars,
                   shortVars, tableVars, dlVars>>

(***************************************************************************)
(* kangaroo and its callers                                                *)
(***************************************************************************)
\* kangaroo(q, bytesNumber) up to the launch of the runningTamed goroutines.
CallKangaroo(q, bytesNumber) ==
    /\ \E tame \in {[num \in 0 .. nRoutines - 1 |-> runningTamed(num, bytesNumber)]} :
       \E arrived \in {[num \in 0 .. nRoutines - 1 |-> tame[num].T]},
          dists \in {[num \in 0 .. nRoutines - 1 |-> tame[num].dTPlus]} :
          walks' = [tame |-> tame,
                    pass |-> [k \in 0 .. nRoutines - 1 |->
                                 [e \in 0 .. MaxPasses - 1 |->
                                     WildPass(q, k + e * nRoutines, arrived, dists,
                                              bytesNumber)]]]
    /\ kpc' = "tame"
    /\ kpt' = q
    /\ kBytes' = bytesNumber
    /\ T' = [k \in 0 .. nRoutines - 1 |-> NilPoint]
    /\ dTPlus' = [k \in 0 .. nRoutines - 1 |-> -1]
    /\ cLim' = 0
    /\ tamed' = [k \in 0 .. nRoutines - 1 |-> "run"]
    /\ wild' = [k \in 0 .. nRoutines - 1 |-> IdleWild]
    /\ pursueWild' = TRUE

\* TestKangaroo: pt := baseMult(BigSmth); kangaroo(pt, 4).
DoTestKangaroo ==
    /\ kpc = "idle"
    /\ \E BigSmth \in KangarooLogs :
          /\ expected' = BigSmth
          /\ CallKangaroo(baseMult(BigSmth), NarrowBytes)
    /\ caller' = "TestKangaroo"
    /\ UNCHANGED <<otherVars, pc, keyVars, shortVars, tableVars, pow, plain, bsgsVars>>

\* kangaroo(pt, bytesNumber) on pt = m.g for m below N.
DoKangaroo ==
    /\ kpc = "idle"
    /\ \E m \in WalkLogs :
          /\ expected' = m
          /\ CallKangaroo(baseMult(m), NarrowBytes)
    /\ caller' = "kangaroo"
    /\ UNCHANGED <<otherVars, pc, keyVars, shortVars, tableVars, pow, plain, bsgsVars>>

\* The call decryptFromPoint(p, sk, colType) of a test; PointFromShort may
\* have panicked before it.
CallDecryptFromPoint(p, sk, colType) ==
    IF p = Panic
    THEN /\ kpc' = "panic"
         /\ UNCHANGED <<kpt, kBytes, walks, T, dTPlus, cLim, tamed, wild, pursueWild, dfp>>
    ELSE /\ dfp' = [p |-> p, s |-> sk, colType |-> colType]
         /\ \E call \in {decryptFromPoint(p, sk, colType)} :
               CallKangaroo(call.q, call.bytesNumber)

\* muteTestDouble: SetKeys, basicEncryptPoint, then decryptFromPoint on
\* PointFromShort(cypher.Data) and cypher.C.multB(priv[0]).
DoTestDouble ==
    /\ kpc = "idle"
    /\ \E km \in KeyMaterial, aBytes \in PointMessages, draw \in ScalarDraws :
          \E made \in {SetKeys(km.k, km.coefs)} :
          \E cyph \in {basicEncryptPoint(made.pub, aBytes, draw)} :
          \E p \in {PointFromShort(cyph.Data)}, sk \in {multB(cyph.C, made.priv[0])} :
              /\ expected' = SetBytes(aBytes)
              /\ CallDecryptFromPoint(p, sk, "REAL")
    /\ caller' = "muteTestDouble"
    /\ UNCHANGED <<otherVars, pc, keyVars, probeVars, tableVars, pow, plain, bsgsVars>>

\* muteTestDoubleAddition: two key bundles, two ciphertexts, the sum of the
\* data points and the sum of the key points handed to decryptFromPoint.
DoTestDoubleAddition ==
    /\ kpc = "idle"
    /\ \E km \in KeyMaterial, aBytes \in PointMessages, drawA \in ScalarDraws,
          kB \in PairKeys, bBytes2 \in PairMessages, drawB \in PairDraws :
          \E madeA \in {SetKeys(km.k, km.coefs)}, madeB \in {SetKeys(kB, km.coefs)} :
          \E cyphA \in {basicEncryptPoint(madeA.pub, aBytes, drawA)},
             cyphB \in {basicEncryptPoint(madeB.pub, bBytes2, drawB)} :
          \E dA \in {PointFromShort(cyphA.Data)}, dB \in {PointFromShort(cyphB.Data)},
             kA \in {multB(cyphA.C, madeA.priv[0])}, kB2 \in {multB(cyphB.C, madeB.priv[0])} :
              /\ expected' = SetBytes(aBytes) + SetBytes(bBytes2)
              /\ CallDecryptFromPoint(IF dA = Panic \/ dB = Panic THEN Panic
                                      ELSE addC(dA, dB), addC(kA, kB2), "REAL")
    /\ caller' = "muteTestDoubleAddition"
    /\ UNCHANGED <<otherVars, pc, keyVars, probeVars, tableVars, pow, plain, bsgsVars>>

\* decryptFromPoint(p, sk, colType) on the data point p = m.g + sk of a
\* column of either width.
DoDecryptFromPoint ==
    /\ kpc = "idle"
    /\ \E aBytes \in PointMessages, draw \in PairDraws, colType \in PointColumnTypes :
          \E sk \in {baseMult(draw)} :
          \E p \in {addC(baseMult(SetBytes(aBytes)), sk)} :
              /\ expected' = SetBytes(aBytes)
              /\ CallDecryptFromPoint(p, sk, colType)
    /\ caller' = "decryptFromPoint"
    /\ UNCHANGED <<otherVars, pc, keyVars, probeVars, tableVars, pow, plain, bsgsVars>>

\* runningTamed(num), from its launch to its send on the buffered cLim.
RunTamed ==
    /\ kpc = "tame"
    /\ \E num \in 0 .. nRoutines - 1 :
          /\ tamed[num] = "run"
          /\ LET run == walks.tame[num]
             IN  /\ T' = [T EXCEPT ![num] = run.T]
                 /\ dTPlus' = [dTPlus EXCEPT ![num] = run.dTPlus]
          /\ tamed' = [tamed EXCEPT ![num] = "done"]
    /\ cLim' = cLim + 1
    /\ UNCHANGED <<otherVars, pc, keyVars, shortVars, tableVars, caller, expected, pow, plain,
                   kpc, kpt, kBytes, walks, wild, pursueWild, bsgsVars>>

\* kangaroo: the nRoutines receptions on cLim, then the launch of the
\* runningWild goroutines.
LaunchWild ==
    /\ kpc = "tame"
    /\ tamedAwaited(cLim)
    /\ cLim' = 0
    /\ wild' = [k \in 0 .. nRoutines - 1 |-> [IdleWild EXCEPT !.st = "run", !.offset = k]]
    /\ kpc' = "wild"
    /\ UNCHANGED <<otherVars, pc, keyVars, shortVars, tableVars, caller, expected, pow, plain,
                   kpt, kBytes, walks, T, dTPlus, tamed, pursueWild, bsgsVars>>

\* runningWild(k): one pass of its outer loop, WildPass(kpt, offset, T,
\* dTPlus, kBytes), entered on reading pursueWild as true. The read races with the write of kangaroo, so it may give true
\* after the write as well. A pass that meets a tame kangaroo ends at the
\* send on cFound, where the goroutine waits for the reception.
RunWild ==
    /\ kpc \in {"wild", "returned", "decoded"}
    /\ \E k \in 0 .. nRoutines - 1 :
          /\ wild[k].st = "run"
          /\ wild[k].offset < nRoutines * MaxPasses
          /\ LET pass == walks.pass[k][(wild[k].offset - k) \div nRoutines]
             IN  wild' = [wild EXCEPT ![k] =
                    IF pass.found
                    THEN [st |-> "send", offset |-> wild[k].offset,
                          num |-> pass.num, d |-> pass.d, pow |-> pass.pow,
                          tests |-> pass.tests]
                    ELSE [@ EXCEPT !.offset = @ + nRoutines, !.tests = pass.tests]]
    /\ UNCHANGED <<otherVars, pc, keyVars, shortVars, tableVars, caller, expected, pow, plain,
                   kpc, kpt, kBytes, walks, T, dTPlus, cLim, tamed, pursueWild, bsgsVars>>

\* runningWild(k) leaves its outer loop on reading pursueWild as false.
StopWild ==
    /\ ~pursueWild
    /\ \E k \in 0 .. nRoutines - 1 :
          /\ wild[k].st = "run"
          /\ wild' = [wild EXCEPT ![k].st = "exit"]
    /\ UNCHANGED <<otherVars, pc, keyVars, shortVars, tableVars, caller, expected, pow, plain,
                   kpc, kpt, kBytes, walks, T, dTPlus, cLim, tamed, pursueWild, bsgsVars>>

\* kangaroo: pow := <-cFound; pursueWild = false; return pow. The sender
\* returns too.
ReceiveFound ==
    /\ kpc = "wild"
    /\ \E k \in 0 .. nRoutines - 1 :
          /\ wild[k].st = "send"
          /\ pow' = wild[k].pow
          /\ wild' = [wild EXCEPT ![k].st = "sent"]
    /\ pursueWild' = FALSE
    /\ kpc' = "returned"
    /\ UNCHANGED <<otherVars, pc, keyVars, shortVars, tableVars, caller, expected, plain,
                   kpt, kBytes, walks, T, dTPlus, cLim, tamed, bsgsVars>>

\* decryptFromPoint: return kangaroo(q, bytesNumber).Bytes().
ReturnPlain ==
    /\ kpc = "returned"
    /\ caller \in {"muteTestDouble", "muteTestDoubleAddition", "decryptFromPoint"}
    /\ plain' = Bytes(pow)
    /\ kpc' = "decoded"
    /\ UNCHANGED <<otherVars, pc, keyVars, shortVars, tableVars, caller, expected, pow,
                   kpt, kBytes, walks, T, dTPlus, cLim, tamed, wild, pursueWild, bsgsVars>>

\* A step of one of the goroutines of kangaroo.
Hopping ==
    \/ RunTamed
    \/ LaunchWild
    \/ RunWild
    \/ StopWild
    \/ ReceiveFound

NextKangaroo ==
    \/ DoTestKangaroo
    \/ DoKangaroo
    \/ Hopping

SpecKangaroo == Init /\ [][NextKangaroo]_vars

\* The Go scheduler: while some goroutine of kangaroo can take a step, one
\* does.
FairKangaroo == SpecKangaroo /\ WF_vars(Hopping)

NextPoint ==
    \/ DoTestDouble
    \/ DoDecryptFromPoint
    \/ DoTestDoubleAddition
    \/ RunTamed
    \/ LaunchWild
    \/ RunWild
    \/ StopWild
    \/ ReceiveFound
    \/ ReturnPlain

SpecPoint == Init /\ [][NextPoint]_vars

(***************************************************************************)
(* babyStepGiantStep and its test                                          *)
(***************************************************************************)
\* TestBSGS: pt := baseMult(BigSmth); babyStepGiantStep(pt, bytesNumber) up
\* to the launch of the findPow goroutines.
DoTestBSGS ==
    /\ bpc = "idle"
    /\ \E smth \in KangarooLogs :
          \E q \in {baseMult(smth)} :
              /\ expected' = smth
              /\ pt0' = q
              /\ finders' = [k \in 0 .. MAX_ROUTINES - 1 |-> findPowStart(k, q, NarrowBytes)]
    /\ bBytes' = NarrowBytes
    /\ hL2' = loadhL2(bsgsM(NarrowBytes))
    /\ pursue' = TRUE
    /\ bpc' = "search"
    /\ caller' = "TestBSGS"
    /\ UNCHANGED <<otherVars, pc, keyVars, shortVars, tableVars, pow, plain, kangarooVars>>

\* babyStepGiantStep(pt0, bytesNumber) on a point pt0 = m.g with m outside
\* [0, M^2), up to the launch of the findPow goroutines.
DoBSGSBeyond ==
    /\ bpc = "idle"
    /\ \E smth \in BeyondLogs :
          \E q \in {baseMult(smth)} :
              /\ expected' = smth
              /\ pt0' = q
              /\ finders' = [k \in 0 .. MAX_ROUTINES - 1 |-> findPowStart(k, q, NarrowBytes)]
    /\ bBytes' = NarrowBytes
    /\ hL2' = loadhL2(bsgsM(NarrowBytes))
    /\ pursue' = TRUE
    /\ bpc' = "search"
    /\ caller' = "babyStepGiantStep"
    /\ UNCHANGED <<otherVars, pc, keyVars, shortVars, tableVars, pow, plain, kangarooVars>>

\* findPow(k): one evaluation of the loop condition, read with pursue true,
\* and the iteration or the exit that follows. The read of pursue races with
\* the write of babyStepGiantStep, so it may give true after the write too.
\* A hit leaves the goroutine at its send on cPow.
RunFinder ==
    /\ bpc \in {"search", "returned"}
    /\ \E k \in 0 .. MAX_ROUTINES - 1 :
          /\ finders[k].st = "run"
          /\ IF finders[k].i >= bsgsM(bBytes)
             THEN finders' = [finders EXCEPT ![k].st = "exit"]
             ELSE \E step \in {findPow(finders[k].i, finders[k].pt1, hL2, bBytes)} :
                     finders' = [finders EXCEPT ![k] =
                         IF step.found
                         THEN [@ EXCEPT !.st = "send", !.pow = step.pow,
                                        !.tests = Append(@, [i |-> finders[k].i,
                                                             pt1 |-> finders[k].pt1])]
                         ELSE [@ EXCEPT !.i = step.i, !.pt1 = step.pt1,
                                        !.tests = Append(@, [i |-> finders[k].i,
                                                             pt1 |-> finders[k].pt1])]]
    /\ UNCHANGED <<otherVars, pc, keyVars, shortVars, tableVars, caller, expected, pow, plain,
                   kangarooVars, bpc, pt0, bBytes, hL2, pursue>>

\* findPow(k) leaves its loop on reading pursue as false.
StopFinder ==
    /\ ~pursue
    /\ \E k \in 0 .. MAX_ROUTINES - 1 :
          /\ finders[k].st = "run"
          /\ finders[k].i < bsgsM(bBytes)
          /\ finders' = [finders EXCEPT ![k].st = "exit"]
    /\ UNCHANGED <<otherVars, pc, keyVars, shortVars, tableVars, caller, expected, pow, plain,
                   kangarooVars, bpc, pt0, bBytes, hL2, pursue>>

\* babyStepGiantStep: pow := <-cPow; pursue = false; return pow. The sender
\* goes on with its loop.
ReceivePow ==
    /\ bpc = "search"
    /\ \E k \in 0 .. MAX_ROUTINES - 1 :
          /\ finders[k].st = "send"
          /\ pow' = finders[k].pow
          /\ \E step \in {findPow(finders[k].i, finders[k].pt1, hL2, bBytes)} :
                finders' = [finders EXCEPT ![k] =
                    [@ EXCEPT !.st = "run", !.i = step.i, !.pt1 = step.pt1]]
    /\ pursue' = FALSE
    /\ bpc' = "returned"
    /\ UNCHANGED <<otherVars, pc, keyVars, shortVars, tableVars, caller, expected, plain,
                   kangarooVars, pt0, bBytes, hL2>>

NextBSGS ==
    \/ DoTestBSGS
    \/ DoBSGSBeyond
    \/ RunFinder
    \/ StopFinder
    \/ ReceivePow

SpecBSGS == Init /\ [][NextBSGS]_vars

(***************************************************************************)
(* EncryptTable: the calling goroutine, one routine per column and         *)
(* rowInsertion, exchanging values over the channels cEnc, cIns and cEnd.  *)
(* A panic in any goroutine ends the program.                              *)
(***************************************************************************)
\* EncryptTable up to the launch of the routines.  existed tells whether
\* dbFinal holds a table <name>_encrypted at the call.  The routine of
\* column j is chosen by commands[j], the argument: with fewer commands than
\* columns the index is out of range.
DoEncryptTable ==
    /\ pc = "idle"
    /\ epc = "idle"
    /\ \E tbl \in SourceTables, commands \in CommandVectors, existed \in BOOLEAN :
       \E ti \in {tableInfoFromDB(tbl, commands)} :
          IF DropTable(existed).err
          THEN /\ job' = [tbl |-> tbl, commands |-> commands, ti |-> ti, columns |-> << >>,
                          texts |-> << >>, existed |-> existed, created |-> FALSE]
               /\ epc' = "panic"
               /\ UNCHANGED <<pubs, keys, RforEnc, cEnc, cIns, workers, ins>>
          ELSE
       \E made \in {SetTableKeys(ti, PrimColumn(ti), PipeDraws(ti.nRows),
                                 PipeKeys(EncryptedColumns(ti)))},
          launched \in {IF Len(commands) < ti.nCol THEN Len(commands) ELSE ti.nCol} :
          \* what the routine of column j makes, at its iteration i, of each
          \* value of its column, tabulated
          /\ job' = [tbl |-> tbl, commands |-> commands, ti |-> ti,
                     columns |-> getColsString(ti),
                     texts |-> [j \in 1 .. launched |->
                         [i \in 0 .. ti.nRows - 1 |->
                             [val \in {SourceCell(ti, k, j) : k \in 1 .. ti.nRows} |->
                                 routineText(workerOf(commands[j], ti.colTypes[j]), val,
                                             made.pubs, ti.colNames[j],
                                             rowScalar(made.RforEnc, i))]]],
                     existed |-> existed, created |-> TRUE]
          /\ pubs' = made.pubs
          /\ keys' = made.keys
          /\ RforEnc' = made.RforEnc
          /\ cEnc' = [j \in 1 .. launched |-> << >>]
          /\ cIns' = [j \in 1 .. launched |-> << >>]
          /\ workers' = [j \in 1 .. launched |->
                            [worker |-> workerOf(commands[j], ti.colTypes[j]),
                             i |-> 0, st |-> "run", out |-> NoText]]
          /\ IF launched < ti.nCol
             THEN epc' = "panic" /\ UNCHANGED ins
             ELSE /\ epc' = "feed"
                  /\ ins' = [ins EXCEPT !.st = "run"]
    /\ UNCHANGED <<pc, disp, dest, calcVars, extractVars, decOut, keyVars, shortVars,
                   parts, lastErr, cell, keyParts, sKey, dlVars>>

\* The calling goroutine scans the next cell and sends it on cEnc[j].
Dispatch ==
    /\ epc = "feed"
    /\ disp.i < job.ti.nRows
    /\ hasRoom(cEnc[disp.j])
    /\ cEnc' = [cEnc EXCEPT ![disp.j] = Append(@, SourceCell(job.ti, disp.i + 1, disp.j))]
    /\ disp' = IF disp.j < job.ti.nCol THEN [disp EXCEPT !.j = @ + 1]
               ELSE [i |-> disp.i + 1, j |-> 1]
    /\ UNCHANGED <<epc, job, cIns, workers, ins, dest, pc, calcVars, extractVars, decOut,
                   keyVars, shortVars, tableVars, dlVars>>

\* The calling goroutine leaves its loops and waits on cEnd.
AwaitEnd ==
    /\ epc = "feed"
    /\ disp.i >= job.ti.nRows
    /\ epc' = "wait"
    /\ UNCHANGED <<job, disp, cEnc, cIns, workers, ins, dest, pc, calcVars, extractVars,
                   decOut, keyVars, shortVars, tableVars, dlVars>>

\* The routine of column j receives a value and makes the text to send.
WorkerReceive(j) ==
    /\ j \in DOMAIN workers
    /\ epc \in {"feed", "wait", "returned"}
    /\ workers[j].st = "run"
    /\ workers[j].i < job.ti.nRows
    /\ cEnc[j] # << >>
    /\ LET got  == receive(cEnc[j])
           text == job.texts[j][workers[j].i][got.val]
       IN  /\ cEnc' = [cEnc EXCEPT ![j] = got.rest]
           /\ workers' = [workers EXCEPT ![j].st = IF text.panic THEN "panic" ELSE "send",
                                         ![j].out = text.out]
           /\ epc' = IF text.panic THEN "panic" ELSE epc
    /\ UNCHANGED <<job, disp, cIns, ins, dest, pc, calcVars, extractVars, decOut,
                   keyVars, shortVars, tableVars, dlVars>>

\* The routine of column j sends its text on cIns[j] and loops.
WorkerSend(j) ==
    /\ j \in DOMAIN workers
    /\ epc \in {"feed", "wait", "returned"}
    /\ workers[j].st = "send"
    /\ hasRoom(cIns[j])
    /\ cIns' = [cIns EXCEPT ![j] = Append(@, workers[j].out)]
    /\ workers' = [workers EXCEPT ![j].st = "run", ![j].i = @ + 1, ![j].out = NoText]
    /\ UNCHANGED <<epc, job, disp, cEnc, ins, dest, pc, calcVars, extractVars, decOut,
                   keyVars, shortVars, tableVars, dlVars>>

\* The routine of column j returns after nRows iterations.
WorkerReturn(j) ==
    /\ j \in DOMAIN workers
    /\ epc \in {"feed", "wait", "returned"}
    /\ workers[j].st = "run"
    /\ workers[j].i >= job.ti.nRows
    /\ workers' = [workers EXCEPT ![j].st = "done"]
    /\ UNCHANGED <<epc, job, disp, cEnc, cIns, ins, dest, pc, calcVars, extractVars, decOut,
                   keyVars, shortVars, tableVars, dlVars>>

\* rowInsertion receives the text of the next column of its row.
InsertReceive ==
    /\ epc \in {"feed", "wait"}
    /\ ins.st = "run"
    /\ ~rowsInserted(ins.i, job.ti.nRows)
    /\ ins.j < job.ti.nCol
    /\ cIns[ins.j + 1] # << >>
    /\ LET got == receive(cIns[ins.j + 1])
       IN  /\ cIns' = [cIns EXCEPT ![ins.j + 1] = got.rest]
           /\ ins' = [ins EXCEPT !.j = @ + 1, !.buffer = Append(@, got.val)]
    /\ UNCHANGED <<epc, job, disp, cEnc, workers, dest, pc, calcVars, extractVars, decOut,
                   keyVars, shortVars, tableVars, dlVars>>

\* rowInsertion executes the INSERT of its row and loops.
InsertExec ==
    /\ epc \in {"feed", "wait"}
    /\ ins.st = "run"
    /\ ~rowsInserted(ins.i, job.ti.nRows)
    /\ ins.j >= job.ti.nCol
    /\ dest' = Append(dest, ins.buffer)
    /\ ins' = [ins EXCEPT !.i = @ + 1, !.j = 0, !.buffer = << >>]
    /\ UNCHANGED <<epc, job, disp, cEnc, cIns, workers, pc, calcVars, extractVars, decOut,
                   keyVars, shortVars, tableVars, dlVars>>

\* rowInsertion leaves its loop and stands at cEnd <- true.
InsertEnd ==
    /\ epc \in {"feed", "wait"}
    /\ ins.st = "run"
    /\ rowsInserted(ins.i, job.ti.nRows)
    /\ ins' = [ins EXCEPT !.st = "end"]
    /\ UNCHANGED <<epc, job, disp, cEnc, cIns, workers, dest, pc, calcVars, extractVars,
                   decOut, keyVars, shortVars, tableVars, dlVars>>

\* cEnd has no buffer: rowInsertion sends when the caller receives, and
\* EncryptTable returns.
ReturnEncryptTable ==
    /\ epc = "wait"
    /\ ins.st = "end"
    /\ epc' = "returned"
    /\ ins' = [ins EXCEPT !.st = "done"]
    /\ UNCHANGED <<job, disp, cEnc, cIns, workers, dest, pc, calcVars, extractVars, decOut,
                   keyVars, shortVars, tableVars, dlVars>>

\* A step of one of the goroutines of EncryptTable.
Running ==
    \/ Dispatch
    \/ AwaitEnd
    \/ \E j \in DOMAIN workers : WorkerReceive(j)
    \/ \E j \in DOMAIN workers : WorkerSend(j)
    \/ \E j \in DOMAIN workers : WorkerReturn(j)
    \/ InsertReceive
    \/ InsertExec
    \/ InsertEnd
    \/ ReturnEncryptTable

NextPipeline ==
    \/ DoEncryptTable
    \/ Running

SpecPipeline == Init /\ [][NextPipeline]_vars

\* The Go scheduler: while some goroutine can take a step, one does.
FairPipeline == SpecPipeline /\ WF_vars(Running)

Next ==
    \/ DoCreateKeys
    \/ DoSetKeys
    \/ DoEncryptHash
    \/ DoEncryptPoint
    \/ DoDecrypt
    \/ DoShort
    \/ DoPointFromShort
    \/ DoCurveOps
    \/ DoSetTableKeys
    \/ DoExtractPart
    \/ DoGiveKeyPoint
    \/ DoCalculateDecryptionKey
    \/ DoGiveKeyCalculation
    \/ DoGiveKeySplit
    \/ DoDecryptOneData

Spec == Init /\ [][Next]_vars

(***************************************************************************)
(* Properties of EncryptTable                                              *)
(***************************************************************************)
\* The text the routine of column j makes of the source cell of row k.
CellText(k, j) ==
    LET colN == job.ti.colNames[j]
    IN  textFor(workerOf(job.commands[j], job.ti.colTypes[j]),
                SourceCell(job.ti, k, j),
                IF colN \in DOMAIN pubs THEN pubs[colN].Y ELSE pointZero,
                RforEnc[k]).out

\* C15: whatever the interleaving of the caller, the routines of the
\* columns and rowInsertion, the k-th INSERT holds, in the order of the
\* columns, the text made of the source cell of row k and column j.
C15_RowOrder ==
    \A k \in 1 .. Len(dest) :
        dest[k] = [j \in 1 .. job.ti.nCol |-> CellText(k, j)]

C15_Witness ==
    /\ epc = "returned"
    /\ job.ti.nCol = 3
    /\ Len(dest) = 5
    /\ \A k \in 1 .. 4 : \A j \in 1 .. 3 : dest[k][j] # dest[k + 1][j]
    /\ C15_RowOrder

\* C16: when EncryptTable returns, exactly nRows INSERT statements have
\* been executed, each of nCol values.
C16_ReturnAfterLastInsert ==
    epc = "returned" =>
        /\ Len(dest) = job.ti.nRows
        /\ \A k \in 1 .. Len(dest) : Len(dest[k]) = job.ti.nCol

C16_Witness ==
    /\ epc = "returned"
    /\ job.ti.nRows = 5
    /\ job.ti.nCol = 2
    /\ Len(dest) = 5
    /\ \E j \in 1 .. 2 : workers[j].st # "done"

\* C17: under a fair scheduler every call of EncryptTable, for every number
\* of rows from 0 up and of columns from 1 up, ends with the caller
\* returned and every routine and rowInsertion finished.
C17_PipelineTerminates ==
    (epc # "idle") ~>
        (/\ epc = "returned"
         /\ ins.st = "done"
         /\ \A j \in DOMAIN workers : workers[j].st = "done")

\* C18: after SetTableKeys keys.R has one entry for each row, the entry of
\* the primary key of row i is RforEnc[i], and it is the scalar with which
\* the cells of row i of the encrypted columns were made.
C18_RowScalars ==
    (epc # "idle" /\ job.created) =>
        LET ti == job.ti
        IN  /\ Cardinality(DOMAIN keys.R) = ti.nRows
            /\ \A i \in 1 .. ti.nRows : keys.R[PrimColumn(ti)[i]] = RforEnc[i]
            /\ \A k \in 1 .. Len(dest) : \A j \in 1 .. ti.nCol :
                   LET colN == ti.colNames[j]
                       r    == keys.R[PrimColumn(ti)[k]]
                       val  == SourceCell(ti, k, j)
                   IN  /\ workers[j].worker = "encryptHash" =>
                              dest[k][j].v = encryptHash(pubs[colN].Y, r, val)
                       /\ workers[j].worker = "encryptPoint" =>
                              dest[k][j].v = encryptPoint(pubs[colN].Y, r, val)

C18_Witness ==
    /\ epc = "returned"
    /\ job.commands = <<0, 1, 2>>
    /\ job.ti.nCol = 3
    /\ Len(dest) = 4
    /\ Cardinality(DOMAIN keys.R) = 4
    /\ Cardinality({RforEnc[i] : i \in 1 .. 4}) = 4
    /\ dest[4][2].v = encryptHash(pubs["a"].Y, keys.R[14], SourceCell(job.ti, 4, 2))
    /\ dest[4][3].v = encryptPoint(pubs["b"].Y, keys.R[14], SourceCell(job.ti, 4, 3))

\* C19: when the commands handed to tableInfoFromDB are not as many as the
\* columns, ti.commands is 0 for the first column and 1 for every other.
C19_DefaultCommands ==
    (epc # "idle" /\ Len(job.commands) # job.ti.nCol) =>
        job.ti.commands = [j \in 1 .. job.ti.nCol |-> IF j = 1 THEN 0 ELSE 1]

\* C20: for every command vector, handed in or defaulted, the TableInfo
\* of EncryptTable has command 0 for the first column, and the rows of the
\* new table hold the primary keys of the source in the clear.
C20_PrimaryKeyInClear ==
    epc # "idle" =>
        /\ job.ti.commands[1] = 0
        /\ \A k \in 1 .. Len(dest) :
               dest[k][1] = [form |-> "FormatInt", v |-> <<PrimColumn(job.ti)[k]>>]

\* The cells of column j scanned from the source by the calling goroutine,
\* and the rows rowInsertion has inserted.
scanned(j) == disp.i + (IF j < disp.j THEN 1 ELSE 0)

inserted == ins.i

\* The cells of column j on their way: in cEnc[j], in the hands of the
\* routine of the column, in cIns[j], and in the row rowInsertion builds.
onTheWay(j) ==
    Len(cEnc[j]) + (IF workers[j].st = "send" THEN 1 ELSE 0) + Len(cIns[j])
        + (IF j <= ins.j THEN 1 ELSE 0)

C36_ColumnConsistency ==
    (epc # "idle" /\ job.created) =>
        \A j \in 1 .. job.ti.nCol :
            LET encrypted == job.ti.commands[j] # 0
            IN  /\ j \in DOMAIN workers
                /\ encrypted <=> workers[j].worker \in {"encryptHash", "encryptPoint"}
                /\ encrypted <=> job.ti.colNames[j] \in DOMAIN keys.Priv
                /\ encrypted <=> job.ti.colNames[j] \in DOMAIN pubs
                /\ job.columns[j].type =
                       IF encrypted THEN "BYTEA DEFAULT NULL" ELSE job.ti.colTypes[j]

\* C21: whether or not dbFinal held a table <name>_encrypted at the call,
\* EncryptTable gets past the DROP to the creation of the new table, and a
\* call that returns has filled it with the nRows rows.
C21_DestinationReplaced ==
    epc # "idle" =>
        /\ job.created
        /\ epc = "returned" => Len(dest) = job.ti.nRows

(***************************************************************************)
(* Properties of the kangaroo solver                                       *)
(***************************************************************************)
\* C7: for pt = m.g, any value kangaroo returns, and any value a wild
\* kangaroo sends on cFound, is dTPlus[num] - dWPlus for the tame kangaroo
\* num it met, and is m itself as a non-negative integer, in every
\* interleaving of the runningWild goroutines.
C7_KangarooResult ==
    caller = "TestKangaroo" =>
        /\ \A k \in 0 .. nRoutines - 1 :
              wild[k].st \in {"send", "sent"} =>
                  /\ wild[k].pow = dTPlus[wild[k].num] - wild[k].d
                  /\ wild[k].pow = expected
                  /\ wild[k].pow >= 0
        /\ kpc = "returned" =>
              /\ pow = expected
              /\ pow >= 0
              /\ \E k \in 0 .. nRoutines - 1 : wild[k].st = "sent" /\ wild[k].pow = pow

C7_Witness ==
    /\ caller = "TestKangaroo"
    /\ kpc = "returned"
    /\ expected >= 2 ^ (4 * NarrowBytes)
    /\ pow = expected
    /\ kpt = baseMult(expected)
    /\ \E k \in 0 .. nRoutines - 1 :
          wild[k].st = "sent" /\ wild[k].num # 0 /\ wild[k].offset >= nRoutines

\* C22: once kangaroo has received its result and cleared pursueWild, every
\* runningWild goroutine has returned or is about to test the flag again:
\* none stands at a send on cFound, which nobody will receive.
C22_WorkersStop ==
    kpc \in {"returned", "decoded"} =>
        \A k \in 0 .. nRoutines - 1 : wild[k].st \in {"run", "exit", "sent"}

\* C25: no runningWild goroutine is started, and so none reads T or
\* dTPlus, before each of the nRoutines runningTamed goroutines has stored
\* its T[num] and dTPlus[num]; an entry of T or dTPlus changes only by the
\* one store of the tame goroutine of that number, before any wild
\* goroutine exists.
C25_TameWildBarrier ==
    /\ [](\A k \in 0 .. nRoutines - 1 :
            wild[k].st # "off" =>
                \A num \in 0 .. nRoutines - 1 :
                    tamed[num] = "done" /\ T[num] # NilPoint /\ dTPlus[num] # -1)
    /\ [][\A num \in 0 .. nRoutines - 1 :
             (T'[num] # T[num] \/ dTPlus'[num] # dTPlus[num]) =>
                 /\ tamed[num] = "run" /\ tamed'[num] = "done"
                 /\ T[num] = NilPoint /\ dTPlus[num] = -1
                 /\ \A k \in 0 .. nRoutines - 1 : wild[k].st = "off"
                 /\ \A other \in 0 .. nRoutines - 1 :
                        other # num => T'[other] = T[other] /\ dTPlus'[other] = dTPlus[other]]_vars

C25_Witness ==
    /\ kpc = "returned"
    /\ \A num \in 0 .. nRoutines - 1 : tamed[num] = "done" /\ T[num] # NilPoint
    /\ Cardinality({T[num] : num \in 0 .. nRoutines - 1}) = nRoutines
    /\ dTPlus = [num \in 0 .. nRoutines - 1 |-> runningTamed(num, kBytes).dTPlus]
    /\ \E k \in 0 .. nRoutines - 1 : wild[k].st = "sent" /\ wild[k].num > 0

\* C26: the arrival T[num] of a tame kangaroo is dTPlus[num].g, dTPlus[num]
\* being its start plus N steps; at each test of a wild kangaroo the point
\* tested is pt + d.g for the distance d it holds then, the distance grows
\* from one test to the next by the step 2^(x mod 8.B) of the point left,
\* and the value sent is dTPlus[num] minus the distance of the last test.
C26_Distances ==
    /\ \A num \in 0 .. nRoutines - 1 :
           tamed[num] = "done" =>
               /\ T[num] = baseMult(dTPlus[num])
               /\ dTPlus[num] - firstPoint(kBytes) * num >= kangarooN(kBytes)
               /\ dTPlus[num] - firstPoint(kBytes) * num
                      <= kangarooN(kBytes) * 2 ^ (8 * kBytes - 1)
    /\ \A k \in 0 .. nRoutines - 1 :
           LET tests == wild[k].tests
           IN  /\ \A i \in 1 .. Len(tests) : tests[i].w = addC(kpt, baseMult(tests[i].d))
               /\ \A i \in 1 .. Len(tests) - 1 :
                      tests[i + 1].d - tests[i].d = 2 ^ (tests[i].w.x % (8 * kBytes))
               /\ wild[k].st \in {"send", "sent"} =>
                      /\ tests[Len(tests)].w = T[wild[k].num]
                      /\ wild[k].pow = dTPlus[wild[k].num] - tests[Len(tests)].d

C26_Witness ==
    /\ kpc = "wild"
    /\ \E k \in 0 .. nRoutines - 1 :
          /\ wild[k].st = "send"
          /\ Len(wild[k].tests) > 2
          /\ wild[k].tests[1].d = wild[k].offset
          /\ wild[k].tests[Len(wild[k].tests)].w = T[wild[k].num]
    /\ \E k \in 0 .. nRoutines - 1 :
          /\ wild[k].st = "run"
          /\ wild[k].offset = k + nRoutines
          /\ Len(wild[k].tests) = kangarooN(kBytes) + 1

\* C28: under a fair scheduler kangaroo(pt, B) returns for every pt = m.g
\* with m below N = 2^(4.B), and the value returned is m; the wild kangaroo
\* k starts its episodes at the offsets k, k + nRoutines, ...
C28_KangarooReturns ==
    /\ (caller = "kangaroo" /\ kpc = "tame") ~> (kpc = "returned" /\ pow = expected)
    /\ [](\A k \in 0 .. nRoutines - 1 :
             wild[k].st # "off" => wild[k].offset % nRoutines = k)

C28_Witness ==
    /\ caller = "kangaroo"
    /\ kpc = "returned"
    /\ pow = expected
    /\ \A k \in 0 .. nRoutines - 1 : wild[k].offset = k + nRoutines

\* C30: the flags the goroutines of the solvers share are written only
\* while no goroutine that reads them is running: pursueWild changes only
\* when no runningWild is in its loop, pursue only when no findPow is in
\* its loop.
C30_FlagsImmutableWhileRead ==
    [][/\ pursueWild' # pursueWild =>
              \A k \in 0 .. nRoutines - 1 : wild[k].st # "run"
       /\ pursue' # pursue =>
              \A k \in 0 .. MAX_ROUTINES - 1 : finders[k].st # "run"]_vars

(***************************************************************************)
(* Properties of babyStepGiantStep                                         *)
(***************************************************************************)
\* C8: for pt0 = m.g with m = i.M + j and i, j < M = 2^(4.B), the value
\* babyStepGiantStep returns is m, as is every value a findPow goroutine
\* sends, in every interleaving of the MAX_ROUTINES goroutines; and the
\* goroutines never all leave their loops with nothing sent.
C8_BSGSReturns ==
    caller = "TestBSGS" =>
        /\ \A k \in 0 .. MAX_ROUTINES - 1 :
              finders[k].st = "send" => finders[k].pow = expected
        /\ bpc = "returned" => pow = expected
        /\ (\A k \in 0 .. MAX_ROUTINES - 1 : finders[k].st = "exit") => bpc = "returned"

C8_Witness ==
    /\ caller = "TestBSGS"
    /\ bpc = "returned"
    /\ pow = expected
    /\ pt0 = baseMult(expected)
    /\ expected \div bsgsM(bBytes) >= MAX_ROUTINES
    /\ expected % bsgsM(bBytes) > 0
    /\ \E k \in 0 .. MAX_ROUTINES - 1 : finders[k].st = "exit"

\* C23: when no findPow goroutine finds the point in the map and all have
\* left their loops, babyStepGiantStep does not stay at its reception on
\* cPow: the search ends as exhausted and the caller is told so.
C23_ExhaustionReported ==
    (\A k \in 0 .. MAX_ROUTINES - 1 : finders[k].st = "exit") => bpc # "search"

C4_PointRoundTrip ==
    caller = "muteTestDouble" =>
        /\ kpc # "panic"
        /\ kpc # "idle" => kpt = baseMult(expected)
        /\ kpc = "decoded" => plain = Bytes(expected)

\* C5: additive homomorphism: for two ciphertexts under two key pairs,
\* decryptFromPoint on the sum of the data points and the sum of the key
\* points is reached without a panic, hands kangaroo the point
\* (m_a + m_b).g, and returns the bytes of m_a + m_b.
C5_AdditiveHomomorphism ==
    caller = "muteTestDoubleAddition" =>
        /\ kpc # "panic"
        /\ kpc # "idle" => kpt = baseMult(expected)
        /\ kpc = "decoded" => plain = Bytes(expected)

\* C27: for the width decryptFromPoint hands to kangaroo, N.N is computed
\* without wrapping, firstPoint is N.N / nRoutines, and the nRoutines tame
\* kangaroos start at pairwise different points num.firstPoint.g.
C27_TameStarts ==
    (caller = "decryptFromPoint" /\ kpc # "idle") =>
        /\ firstPoint(kBytes) = (2 ^ (4 * kBytes) * 2 ^ (4 * kBytes)) \div nRoutines
        /\ \A a, b \in 0 .. nRoutines - 1 :
               a # b => tameStart(a, kBytes) # tameStart(b, kBytes)

\* The PostgreSQL types that are integers of 32 bits.
Int32Types == {"INTEGER", "INT", "INT4", "SERIAL", "SERIAL4"}

\* C35 as stated: decryptFromPoint hands kangaroo the point p - s, with the
\* narrow width exactly when colType is an integer type of 32 bits and
\* with the default width for every other type.
C35_WidthOfInt32 ==
    (caller = "decryptFromPoint" /\ kpc # "idle") =>
        /\ kpt = addC(dfp.p, [x |-> dfp.s.x, y |-> -dfp.s.y])
        /\ kBytes = IF dfp.colType \in Int32Types THEN NarrowBytes ELSE DefaultBytes

\* C35 amended: decryptFromPoint hands kangaroo the point p - s, with the
\* narrow width exactly when colType is one of INTEGER, INT, INT4, SERIAL,
\* SERIAL4, SMALLINT, INT2, REAL, FLOAT4 and with the default width for
\* every other type.
C35_WidthOfColumn ==
    (caller = "decryptFromPoint" /\ kpc # "idle") =>
        /\ kpt = addC(dfp.p, [x |-> dfp.s.x, y |-> -dfp.s.y])
        /\ kBytes = IF dfp.colType \in {"INTEGER", "INT", "INT4", "SERIAL", "SERIAL4",
                                         "SMALLINT", "INT2", "REAL", "FLOAT4"}
                     THEN NarrowBytes ELSE DefaultBytes

C35_Witness ==
    /\ caller = "decryptFromPoint"
    /\ kpc = "decoded"
    /\ dfp.colType = "REAL"
    /\ kBytes = NarrowBytes
    /\ dfp.p # dfp.s
    /\ kpt = baseMult(expected)

(***************************************************************************)
(* Properties of key generation, hash mode and the key holders             *)
(***************************************************************************)
\* The scalar r.x and the mask (r.x).g of the requested cell.
CellMask == BaseTab[(keys.R[cell.i] * SetBytes(keys.Priv[cell.j][0])) % N]

\* C1: for each pair of key holders {1,2}, {2,3}, {1,3}, the point that
\* calculateDecryptionKey builds from their two GiveKeyPoint answers is the
\* mask r.x.g of the cell, x being the full private key priv[0].
C1_PairsRecoverMask ==
    (pc = "masked" /\ Cardinality(DOMAIN keyParts) = 2) => sKey = CellMask

\* C2: hash mode round trip: Decrypt returns the message handed to
\* basicEncryptHash, byte for byte, whatever its length.
C2_HashRoundTrip == pc = "decrypted" => result = msg

C2_Witness ==
    /\ pc = "decrypted"
    /\ Len(msg) > BytesNumber
    /\ result = msg
    /\ cypher.Data # msg

\* C3: any two distinct shares of a bundle made by SetKeys combine to priv[0].
C3_ShareSoundness ==
    pc = "keyed" =>
        \A i, j \in 1 .. 3 :
            i # j => sssCombine([h \in {i, j} |-> bundle.priv[h]]) = bundle.priv[0]

C3_Witness ==
    /\ pc = "keyed"
    /\ \A i \in 1 .. 3 : bundle.priv[i] # bundle.priv[0]
    /\ sssCombine([h \in {2, 3} |-> bundle.priv[h]]) = bundle.priv[0]

\* C6: compression round trip: for every point P = a.g of the curve,
\* PointFromShort(GetShortOf(P)) equals P in both coordinates.
C6_ShortRoundTrip ==
    (pc = "short" /\ ~IsInfinity(pt)) => equalC(pt, pt2)

\* C9: CreateKeys and SetKeys return Y = x.g for the private scalar x read
\* big-endian from priv0 (priv[0]), with 0 < x < N and Y not at infinity.
KeyPairOK(Y, priv0) ==
    LET x == SetBytes(priv0)
    IN  /\ 0 < x /\ x < N
        /\ ~IsInfinity(Y)
        /\ IsOnCurve(Y)
        /\ Y = ScalarMult(G, x)

C9_KeyPair ==
    /\ pc = "created" => KeyPairOK(created.pub.Y, created.priv0)
    /\ pc \in {"keyed", "encrypted", "decrypted"} => KeyPairOK(bundle.pub.Y, bundle.priv[0])
    /\ pc \in {"table", "request", "masked"} =>
          \A c \in DOMAIN keys.Priv : KeyPairOK(pubs[c].Y, keys.Priv[c][0])

C9_Witness ==
    /\ pc = "keyed"
    /\ SetBytes(bundle.priv[0]) > 255
    /\ KeyPairOK(bundle.pub.Y, bundle.priv[0])

\* C11: for every coefficient map a, with coefficients positive, zero or
\* negative, GiveKeyCalculation(a) returns (sum of a_ij * r_i * s_j,id).g,
\* r_i the row scalars and s_j,id the holder's shares.
C11_KeyCalculation ==
    pc = "calculated" =>
        calcPt = BaseTab[SumOver([k \in DOMAIN calcCoeffs |->
                                    calcCoeffs[k] * keys.R[k.i]
                                        * SetBytes(keys.Priv[k.j][calcHolder])],
                                 DOMAIN calcCoeffs) % N]

\* C38: GiveKeyCalculation on the map of the single cell c with coefficient
\* 1 returns the point GiveKeyPoint(c) returns, and for two coefficient
\* maps over disjoint cells GiveKeyCalculation of their union returns the
\* point sum of GiveKeyCalculation of the one and of the other.
C38_AgreeAndAdditive ==
    pc = "split" =>
        /\ \A c \in DOMAIN calcSplit.a :
               (DOMAIN calcSplit.a = {c} /\ calcSplit.a[c] = 1) =>
                   calcSplit.ptA = calcSplit.ptCells[c]
        /\ calcSplit.ptUnion = addC(calcSplit.ptA, calcSplit.ptB)

\* C12: for id in {1, 2, 3}, ExtractPart(id) returns a part whose keyHolder
\* is id, whose R has exactly the keys and values of the table keys' R, and
\* whose PrivPart holds, for exactly the columns with a private key, the
\* big-endian integer of the id-th share; it holds neither priv[0] nor
\* another holder's share, and the table keys are as SetTableKeys left them.
PartOf(part, id) ==
    /\ DOMAIN part = {"ti", "keyHolder", "R", "PrivPart"}
    /\ part.keyHolder = id
    /\ part.ti = keys.ti
    /\ part.R = keys.R
    /\ DOMAIN part.PrivPart = DOMAIN keys.Priv
    /\ \A c \in DOMAIN keys.Priv :
          /\ part.PrivPart[c] = SetBytes(keys.Priv[c][id])
          /\ \A other \in (0 .. 3) \ {id} :
                part.PrivPart[c] # SetBytes(keys.Priv[c][other])

C13_ExtractError ==
    lastNum # -1 =>
        /\ lastErr <=> lastNum \notin {1, 2, 3}
        /\ lastErr =>
              /\ lastPart.keyHolder = 0
              /\ lastPart.R = << >>
              /\ lastPart.PrivPart = << >>

C13_Witness ==
    /\ lastNum = 0
    /\ lastErr
    /\ lastPart = EmptyPart
    /\ parts # << >>

\* C14: DecryptOneData, and calculateDecryptionKey which it calls, given
\* points of fewer than two key holders, report a failure for want of shares
\* instead of returning a mask and decrypting with it.
C14_InsufficientShares ==
    (pc = "decryptedOne" /\ Cardinality(DOMAIN keyParts) < 2) =>
        decOut.st = "InsufficientShares"

\* C39: a column whose command byte is none of 0, 1, 2 is encrypted by the
\* routine of the hash mode, and DecryptOneData on a cell of it, given the
\* points of two key holders or more, returns the hash-mode decryption of
\* the data with the mask made of the points, as for command 1, and never
\* an empty result.
C39_SameMode ==
    (pc = "decryptedOne" /\ keys.ti.commands[decOut.colNum] \notin {0, 1, 2}) =>
        /\ decOut.routine = "encryptHash"
        /\ Cardinality(DOMAIN keyParts) >= 2 =>
              /\ decOut.st = "returned"
              /\ decOut.result =
                     decryptFromHash(decOut.data, calculateDecryptionKey(keyParts))
              /\ decOut.result # << >>

\* C24: calculateDecryptionKey applies the signed coefficients: from the
\* points of key holders 1 and 2 (a third one or not) it returns
\* 3.K1 - 3.K2, from those of 2 and 3 alone -3.K2 + K3, from those of
\* 1 and 3 alone 3.K1 + K3.
C24_SignedCoefficients ==
    (pc = "masked" /\ Cardinality(DOMAIN keyParts) >= 2) =>
        LET ok1 == 1 \in DOMAIN keyParts
            ok2 == 2 \in DOMAIN keyParts
        IN  sKey = IF ok1 /\ ok2
                   THEN addC(mult(keyParts[1], 3), negC(mult(keyParts[2], 3)))
                   ELSE IF ok2
                   THEN addC(negC(mult(keyParts[2], 3)), keyParts[3])
                   ELSE addC(mult(keyParts[1], 3), keyParts[3])

\* C10: the point a key holder gives for the cell (i, j) is (r_i * s_j,id).g,
\* r_i being the row scalar of the table keys and s_j,id the holder's share
\* of column j read as a big-endian integer.
C10_KeyPoint ==
    pc \in {"request", "masked"} =>
        \A h \in DOMAIN keyParts :
            keyParts[h] =
                BaseTab[(keys.R[cell.i] * SetBytes(keys.Priv[cell.j][h])) % N]

C10_Witness ==
    /\ pc = "request"
    /\ \E h \in DOMAIN keyParts :
          /\ ~IsInfinity(keyParts[h])
          /\ keyParts[h] =
                BaseTab[(keys.R[cell.i] * SetBytes(keys.Priv[cell.j][h])) % N]

(***************************************************************************)
(* Properties of the sampling of scalars                                   *)
(***************************************************************************)
\* C31: the row scalars SetTableKeys stores in RforEnc and in keys.R, and
\* the scalar r of basicEncryptHash and of basicEncryptPoint, are the draw
\* of rand.Int(random, N) with 0 replaced by 2, and lie strictly between 0
\* and N; r is read off C = r.g and off the data made with pub.Y.mult(r).
C31_ScalarSampling ==
    /\ Len(RforEnc) > 0 =>
          \A i \in 1 .. Len(RforEnc) :
              LET r == IF drawn[i] = 0 THEN 2 ELSE drawn[i]
              IN  /\ RforEnc[i] = r
                  /\ keys.R[PrimColumn(keys.ti)[i]] = r
                  /\ 0 < RforEnc[i] /\ RforEnc[i] < N
    /\ pc \in {"encrypted", "decrypted", "encryptedPoint"} =>
          LET r  == IF drawn[1] = 0 THEN 2 ELSE drawn[1]
              sk == mult(bundle.pub.Y, r)
          IN  /\ 0 < r /\ r < N
              /\ cypher.C = BaseTab[r]
              /\ pc = "encryptedPoint" =>
                    cypher.Data = GetShortOf(addC(baseMultB(msg), sk))
              /\ pc # "encryptedPoint" =>
                    cypher.Data = XorHash(msg, Sum512(Bytes(sk.x) \o Bytes(sk.y)))

C31_Witness ==
    /\ pc = "table"
    /\ \E i \in 1 .. Len(RforEnc) : drawn[i] = 0 /\ RforEnc[i] = 2 /\ keys.R[10 + i] = 2
    /\ \E i \in 1 .. Len(RforEnc) : drawn[i] > 2 /\ RforEnc[i] = drawn[i]

(***************************************************************************)
(* Properties of the short form received from outside                      *)
(***************************************************************************)
\* C32: GetShortOf writes SHORT_POINT_LENGTH bytes, the first 1 when
\* y >= P/2 and 0 otherwise, then x big-endian padded with zeros on the
\* left; PointFromShort and PointFromBytes take the ordinate from the low
\* bit of the first byte only, so that a short point decodes as the one
\* with the other bits of its first byte cleared; and the two functions
\* agree on every input of that length.
C32_WireFormat ==
    /\ pc = "short" =>
          /\ DOMAIN short = 0 .. SHORT_POINT_LENGTH - 1
          /\ short[0] = IF pt.y >= P \div 2 THEN 1 ELSE 0
          /\ \A k \in 1 .. SHORT_POINT_LENGTH - 1 :
                short[k] = FixedBytes(pt.x, SHORT_POINT_LENGTH - 1)[k]
    /\ pc = "wire" =>
          /\ fromShort = PointFromShort([wire EXCEPT ![0] = wire[0] % 2])
          /\ fromBytes = fromShort

\* The right-hand side x^3 - 3x + b of the curve equation, modulo P.
CurveRhs(x) == ((((x % P) * (x % P)) % P) * (x % P) + 3 * P - 3 * (x % P) + B) % P

\* C33: when x^3 - 3x + b has no square root modulo P for the abscissa x of
\* the bytes received, YFromX returns an error and PointFromShort and
\* PointFromBytes panic; a point they return has y^2 = x^3 - 3x + b
\* modulo P.
C33_NoSquareRoot ==
    pc = "wire" =>
        LET x == SetBytes(ShortTail(wire))
        IN  /\ (\A y \in 0 .. P - 1 : (y * y) % P # CurveRhs(x)) =>
                  /\ YFromX(x).err
                  /\ fromShort = Panic
                  /\ fromBytes = Panic
            /\ fromShort # Panic =>
                  /\ fromShort.x = x
                  /\ ((fromShort.y % P) * (fromShort.y % P)) % P = CurveRhs(x)
            /\ fromBytes # Panic =>
                  /\ fromBytes.x = x
                  /\ ((fromBytes.y % P) * (fromBytes.y % P)) % P = CurveRhs(x)

C33_Witness ==
    /\ pc = "wire"
    /\ wire[0] = 1
    /\ SetBytes(ShortTail(wire)) > P
    /\ \A y \in 0 .. P - 1 : (y * y) % P # CurveRhs(SetBytes(ShortTail(wire)))
    /\ fromShort = Panic
    /\ fromBytes = Panic

(***************************************************************************)
(* Properties of the operators on points                                   *)
(***************************************************************************)
\* C34: handed a pair that is neither on the curve nor the point at
\* infinity, none of addC, subC, negC, doubleC, mult, multB, equalC returns
\* a result: each panics on the check of its argument.
C34_InputsValidated ==
    (pc = "ops" /\ ~IsOnCurve(opIn.p) /\ ~IsInfinity(opIn.p)) => opOut.returned = {}

====
